---- MODULE Spec2Model ----
(***************************************************************************)
(* Storage subsystem of private-journal: the schema manager               *)
(* (server/database.ts, initializeDatabase) and the session persistence    *)
(* adapter (server/session-store.ts, SQLiteStore) over the same SQLite     *)
(* store, and the two AES-256-GCM codecs: the at-rest codec of the         *)
(* content column (encrypt, decrypt, isEncrypted, safeDecrypt) and the     *)
(* export codec of CSV and JSON files (encryptCSV, decryptCSV and their    *)
(* JSON twins), and the entries routes that use them.                      *)
(*                                                                         *)
(* Spec         startup of the process: initializeDatabase statement by    *)
(*              statement, with the store's transaction, foreign-key and   *)
(*              automatic-index behaviour, run MaxRuns times on one store. *)
(* SessionSpec  the six SQLiteStore operations and the passing of time.    *)
(* RestSpec     calls of the at-rest codec on one stored value, restarts   *)
(*              under another ENCRYPTION_KEY, old plain text, and a        *)
(*              changed character in the tag or the ciphertext.            *)
(* ExportSpec   calls of the export codec on one file, uploads of plain    *)
(*              files, and files with changed tokens or characters.        *)
(* CallbackSpec the six SQLiteStore operations with statements that throw, *)
(*              payloads that are no JSON, and callbacks that throw.       *)
(* BootSpec     the loading of server/database.ts on a store file of any   *)
(*              earlier version: directory, connection, and every          *)
(*              statement of initializeDatabase with its failure.          *)
(* RouteSpec    the requests of the entries routes (server/routes/         *)
(*              entries.ts) of two users, exports and imports included.    *)
(***************************************************************************)
EXTENDS Integers, FiniteSets, Sequences, TLC

VARIABLES
    db,         \* the store as this connection sees it (uncommitted changes included)
    committed,  \* the store as any other connection reads it
    inTx,       \* an explicit transaction is open on this connection
    pc,         \* position inside initializeDatabase
    run,        \* number of startups so far
    before,     \* history: the store when this run started, then when its constraint check was made
    outcome,    \* history: per run, what the constraint-removal migration did
    sessions,   \* the sessions table: sid -> row, for the sids that have one
    now,        \* Date.now()
    lastOp,     \* history: the last SQLiteStore call and the sid it was given
    result,     \* what that call handed to its callback
    env,        \* process.env.ENCRYPTION_KEY of the running process, "" when not set
    field,      \* a stored text: a content column, or an export file
    sealed,     \* history: how field came to be (plaintext, passphrase, IV, tampering,
                \* and whether it replaced an envelope of the same plaintext and another IV)
    ret,        \* what the last codec call returned or threw
    entries,    \* the diary_entries rows
    entryTags,  \* the entry_tags rows
    tags,       \* the tags rows
    templates,  \* the templates rows
    clock,      \* new Date() as the route handlers read it
    resp,       \* the response the last request got
    file,       \* the export file the last response carried
    boot,       \* the process while server/database.ts is loaded
    cb          \* the callback invocations of the last SQLiteStore call

vars == <<db, committed, inTx, pc, run, before, outcome,
          sessions, now, lastOp, result, env, field, sealed, ret,
          entries, entryTags, tags, templates, clock, resp, file, boot, cb>>

schemaVars == <<db, committed, inTx, pc, run, before, outcome>>
sessionVars == <<sessions, now, lastOp, result>>
codecVars == <<env, field, sealed, ret>>
routeVars == <<entries, entryTags, tags, templates, clock, resp, file>>
appVars == <<routeVars, boot, cb>>

(***************************************************************************)
(* Values                                                                  *)
(***************************************************************************)
Null == "NULL"          \* SQL NULL, JavaScript null / undefined

MaxEntries == 2         \* diary_entries ids are 1..MaxEntries
MaxRuns == 2            \* startups on the same store

EntryIds == 1..MaxEntries
TagIds == {"g1"}

\* new Date().toISOString() at the time of the copy
NowIso == "now"

\* Rows a legacy diary_entries table may hold: moods set or not, timestamps
\* present, empty or NULL (the copy statement guards against both).
RowProfiles ==
    { [date |-> 1, mood |-> Null,    created_at |-> "",   updated_at |-> "t1"],
      [date |-> 2, mood |-> "happy", created_at |-> "t0", updated_at |-> ""],
      [date |-> 1, mood |-> Null,    created_at |-> Null, updated_at |-> "t1"],
      [date |-> 2, mood |-> "happy", created_at |-> "t0", updated_at |-> "t1"] }

MkRow(i, p) ==
    [id |-> i, user_id |-> "u1", date |-> p.date, content |-> "c1",
     mood |-> p.mood, created_at |-> p.created_at, updated_at |-> p.updated_at]

Rows == { MkRow(i, p) : i \in EntryIds, p \in RowProfiles }

IdsOf(rows) == { r.id : r \in rows }

\* tables other than diary_entries / diary_entries_new / entry_tags
OtherTables == {"users", "sessions", "tags", "reminders", "templates"}

(***************************************************************************)
(* The store: schema introspection                                         *)
(***************************************************************************)

\* CREATE TABLE IF NOT EXISTS diary_entries (...): id TEXT PRIMARY KEY, mood
\* column, no UNIQUE(user_id, date).
BaseDiaryEntries == [exists |-> TRUE, unique |-> FALSE, hasMood |-> TRUE, rows |-> {}]

\* no table of that name
Absent == [exists |-> FALSE, unique |-> FALSE, hasMood |-> FALSE, rows |-> {}]
NoEntryTags == [exists |-> FALSE, rows |-> {}]

\* The rows of sqlite_master with type = 'index' and tbl_name = 'diary_entries'.
\* The schema creates no index on diary_entries; the store itself keeps an
\* automatic index for a PRIMARY KEY that is not an INTEGER PRIMARY KEY
\* (id TEXT PRIMARY KEY) and one for each UNIQUE constraint, named
\* sqlite_autoindex_<table>_<n>, with a NULL sql column.
AutoIndex(n) == [auto |-> TRUE, n |-> n, sql |-> Null]
IndexesOf(t) ==
    IF ~t.exists THEN {}
    ELSE {AutoIndex(1)} \cup (IF t.unique THEN {AutoIndex(2)} ELSE {})

\* tableInfo && tableInfo.sql && tableInfo.sql.includes('UNIQUE(user_id, date)')
hasUniqueConstraint(t) == t.exists /\ t.unique

\* indexes.some(idx => idx.name && (idx.name.includes('autoindex') ||
\*   (idx.sql && idx.sql.includes('UNIQUE') && ...)))
hasUniqueIndex(t) ==
    \E idx \in IndexesOf(t) : idx.auto \/ (idx.sql # Null /\ t.unique)

\* allIndexes.length > 0 && allIndexes.some(idx => idx.name?.startsWith('sqlite_autoindex'))
hasAutoIndex(t) ==
    IndexesOf(t) # {} /\ \E idx \in IndexesOf(t) : idx.auto

\* if (hasUniqueConstraint || hasUniqueIndex || hasAutoIndex)
NeedsMigration(t) == hasUniqueConstraint(t) \/ hasUniqueIndex(t) \/ hasAutoIndex(t)

(***************************************************************************)
(* The store: statements                                                   *)
(***************************************************************************)

\* db.pragma('foreign_keys = ON')
ForeignKeys == TRUE

NULLIF(x, y) == IF x = y THEN Null ELSE x
COALESCE(x, y) == IF x # Null THEN x ELSE y

CopyValue_keepEmpty(ts, t) == COALESCE(ts, t)
\* COALESCE(NULLIF(created_at, ''), ?)
CopyValue(ts, t) == COALESCE(NULLIF(ts, ""), t)

\* one row of INSERT INTO diary_entries_new (...) SELECT ... FROM diary_entries
CopyRow(r, t) ==
    [id |-> r.id, user_id |-> r.user_id, date |-> r.date, content |-> r.content,
     mood |-> r.mood,
     created_at |-> CopyValue(r.created_at, t),
     updated_at |-> CopyValue(r.updated_at, t)]

\* CREATE TABLE diary_entries_new (...)
ShadowTable == [exists |-> TRUE, unique |-> FALSE, hasMood |-> TRUE, rows |-> {}]

\* DROP TABLE diary_entries.  With foreign keys enabled the store deletes the
\* table's rows first, and that delete runs the ON DELETE CASCADE of
\* entry_tags.entry_id.
DropDiaryEntries(d) ==
    [d EXCEPT !.diary_entries = Absent,
              !.entry_tags.rows =
                  IF ~ForeignKeys THEN @
                  ELSE { et \in @ : et[1] \notin IdsOf(d.diary_entries.rows) }]

\* ALTER TABLE diary_entries_new RENAME TO diary_entries
RenameShadow(d) ==
    [d EXCEPT !.diary_entries = d.diary_entries_new, !.diary_entries_new = Absent]

\* DROP TABLE IF EXISTS diary_entries_new
DropShadow(d) == [d EXCEPT !.diary_entries_new = Absent]

Visible_dirty(tx, working, comm) == working
\* What other connections read after a statement of this connection: its
\* effect at once in autocommit mode, nothing new inside BEGIN .. COMMIT.
Visible(tx, working, comm) == IF tx THEN comm ELSE working

Rollback_keep(working, comm) == working
\* ROLLBACK: the connection is back at the last committed store
Rollback(working, comm) == comm

OuterCatchTarget_rethrow == "crashed"
\* catch (err) { console.warn(...) }: the error stops here and
\* initializeDatabase goes on with the sessions table
OuterCatchTarget == "sessions"

\* how a statement that can fail ends: it succeeds, it fails and only the
\* statement is undone, or it fails with an error on which the store rolls
\* the whole transaction back by itself (disk full, I/O error, interrupt)
Outcomes == {"ok", "error", "abort"}

(***************************************************************************)
(* Init                                                                    *)
(***************************************************************************)
LegacyTables ==
    { [exists |-> TRUE, unique |-> u, hasMood |-> m, rows |-> rs] :
        u \in BOOLEAN, m \in BOOLEAN,
        rs \in { s \in SUBSET Rows :
                   /\ \A r1, r2 \in s : r1.id = r2.id => r1 = r2 } }

WellFormedTable(t) ==
    \* UNIQUE(user_id, date) held for the rows of a table that declares it
    /\ t.unique => \A r1, r2 \in t.rows : r1.date = r2.date => r1 = r2
    \* a table without the mood column has no moods
    /\ ~t.hasMood => \A r \in t.rows : r.mood = Null

Stores ==
    \* a new store file
    { [diary_entries |-> Absent, diary_entries_new |-> Absent,
       entry_tags |-> NoEntryTags, tables |-> {}] }
    \cup
    \* a store written by an earlier release
    { [diary_entries |-> t, diary_entries_new |-> s,
       entry_tags |-> [exists |-> TRUE, rows |-> et], tables |-> OtherTables] :
        t \in { x \in LegacyTables : WellFormedTable(x) },
        s \in {Absent, ShadowTable},
        et \in SUBSET (EntryIds \X TagIds) }

WellFormedStore(d) ==
    \* entry_tags.entry_id REFERENCES diary_entries(id)
    \A et \in d.entry_tags.rows : et[1] \in IdsOf(d.diary_entries.rows)

\* what the constraint-removal migration of one run did: status is pending,
\* noop, committed or failed; for a failure, the statement that failed, the
\* rows the shadow table held then, and how the statement ended
Pending == [status |-> "pending", step |-> "", copied |-> 0, how |-> ""]
Finished(st) == [status |-> st, step |-> "", copied |-> 0, how |-> ""]

(***************************************************************************)
(* Session values                                                          *)
(***************************************************************************)
MaxSids == 2            \* session ids are 1..MaxSids
MaxNow == 2             \* the clock runs from 0 to MaxNow

Sids == 1..MaxSids
UserIds == {"alice"}

\* JavaScript values: null, a number, a Date, a string holding a date
JsNull == [t |-> "null", v |-> 0]
Num(n) == [t |-> "number", v |-> n]
Date(n) == [t |-> "Date", v |-> n]
DateString(n) == [t |-> "string", v |-> n]

\* cookie.maxAge as the middleware may hand it over: none, run out, one
\* millisecond left
MaxAges == {JsNull, Num(0), Num(1)}

\* req.session as the middleware hands it over: the user and a cookie whose
\* expires is a Date when maxAge is set (the Date is kept relative to the
\* time of the call)
SessionData(u, m) ==
    [userId |-> u,
     cookie |-> [maxAge |-> m,
                 expires |-> IF m.t = "number" THEN Date(m.v) ELSE JsNull]]

NoSession == SessionData("", JsNull)

\* JSON.stringify(session): a Date is written as its ISO string
JSONstringify(x) ==
    [json |-> [x EXCEPT !.cookie.expires =
                   IF @.t = "Date" THEN DateString(@.v) ELSE @]]

\* JSON.parse(text): the value the text denotes; a date string stays a string
JSONparse(text) == text.json

\* `86400000` in `session.cookie.maxAge || 86400000`
DefaultMaxAge == 86400000

\* session.cookie.maxAge || 86400000: the default for every falsy maxAge
maxAgeOf(x) ==
    IF x.cookie.maxAge.t = "number" /\ x.cookie.maxAge.v # 0
    THEN x.cookie.maxAge.v
    ELSE DefaultMaxAge

NoOp == [op |-> "none", sid |-> 0]
NoResult == [err |-> "none", found |-> FALSE, session |-> NoSession, count |-> 0]

SchemaInit ==
    /\ db \in { d \in Stores : WellFormedStore(d) }
    /\ committed = db
    /\ inTx = FALSE
    /\ pc = "down"
    /\ run = 0
    /\ before = db
    /\ outcome = [r \in 1..MaxRuns |-> Pending]

SessionIdle ==
    /\ sessions = << >>
    /\ now = 0
    /\ lastOp = NoOp
    /\ result = NoResult

\* no stored value yet, no codec call made
NoSeal == [kind |-> "none", plain |-> <<>>, password |-> "", iv |-> <<>>,
           tampered |-> "no", again |-> FALSE]
NoRet == [op |-> "none", password |-> "", ok |-> TRUE, value |-> <<>>,
          error |-> "", flag |-> FALSE, kdf |-> 0]

CodecIdle ==
    /\ env = ""
    /\ field = <<>>
    /\ sealed = NoSeal
    /\ ret = NoRet

\* no request made yet, no file exported
NoResp == [route |-> "none", user |-> "", status |-> 0, ids |-> {},
           count |-> 0, skipped |-> 0, text |-> <<>>, password |-> ""]
NoFile == [format |-> "none", owner |-> "", password |-> "", text |-> <<>>,
           rows |-> {}, tags |-> {}, templates |-> {}]

RouteIdle ==
    /\ entries = {}
    /\ entryTags = {}
    /\ tags = {}
    /\ templates = {}
    /\ clock = 0
    /\ resp = NoResp
    /\ file = NoFile

\* server/database.ts is not being loaded
NotBooting == [pc |-> "idle", tables |-> <<>>, last |-> "none",
               exit |-> "none", log |-> {}, failed |-> "none"]

\* no SQLiteStore call with its faults laid out
NoCall == [op |-> "none", invoked |-> <<>>, escaped |-> FALSE, fault |-> "none"]

AppIdle == RouteIdle /\ boot = NotBooting /\ cb = NoCall

Init == SchemaInit /\ SessionIdle /\ CodecIdle /\ AppIdle

(***************************************************************************)
(* initializeDatabase                                                      *)
(***************************************************************************)

\* a statement outside the rebuild: it changes the store and, in autocommit
\* mode, is committed at once
Exec(d) ==
    /\ db' = d
    /\ committed' = Visible(inTx, d, committed)

\* initializeDatabase() at module load
Startup ==
    /\ pc \in {"down", "returned"}
    /\ run < MaxRuns
    /\ run' = run + 1
    /\ pc' = "users"
    /\ before' = db
    \* of the earlier runs only the status is kept
    /\ outcome' = [r \in 1..MaxRuns |-> Finished(outcome[r].status)]
    /\ UNCHANGED <<db, committed, inTx>>
    /\ UNCHANGED <<sessionVars, codecVars, appVars>>

\* CREATE TABLE IF NOT EXISTS users and its three ADD COLUMN steps
EnsureUsers ==
    /\ pc = "users"
    /\ Exec([db EXCEPT !.tables = @ \cup {"users"}])
    /\ pc' = "diary_entries"
    /\ UNCHANGED <<inTx, run, before, outcome>>
    /\ UNCHANGED <<sessionVars, codecVars, appVars>>

\* CREATE TABLE IF NOT EXISTS diary_entries
EnsureDiaryEntries ==
    /\ pc = "diary_entries"
    /\ Exec(IF ~db.diary_entries.exists
            THEN [db EXCEPT !.diary_entries = BaseDiaryEntries]
            ELSE db)
    /\ pc' = "mood"
    /\ UNCHANGED <<inTx, run, before, outcome>>
    /\ UNCHANGED <<sessionVars, codecVars, appVars>>

\* ALTER TABLE diary_entries ADD COLUMN mood TEXT, every error caught
AddMoodColumn ==
    /\ pc = "mood"
    /\ \E o \in {"ok", "error"} :
         Exec(IF o = "ok" /\ ~db.diary_entries.hasMood
              THEN [db EXCEPT !.diary_entries.hasMood = TRUE]
              ELSE db)
    /\ pc' = "detect"
    /\ UNCHANGED <<inTx, run, before, outcome>>
    /\ UNCHANGED <<sessionVars, codecVars, appVars>>

\* the three sqlite_master queries and the if on their results
DetectConstraint ==
    /\ pc = "detect"
    /\ before' = db
    /\ IF NeedsMigration(db.diary_entries)
       THEN /\ pc' = "cleanup"
            /\ outcome' = outcome
       ELSE /\ pc' = "sessions"
            /\ outcome' = [outcome EXCEPT ![run] = Finished("noop")]
    /\ UNCHANGED <<db, committed, inTx, run>>
    /\ UNCHANGED <<sessionVars, codecVars, appVars>>

\* DROP TABLE IF EXISTS diary_entries_new, before the transaction
CleanupShadow ==
    /\ pc = "cleanup"
    /\ Exec(DropShadow(db))
    /\ pc' = "begin"
    /\ UNCHANGED <<inTx, run, before, outcome>>
    /\ UNCHANGED <<sessionVars, codecVars, appVars>>

\* db.exec('BEGIN TRANSACTION'); a failure goes to the outer catch
BeginTransaction ==
    /\ pc = "begin"
    /\ \E o \in {"ok", "error"} :
         IF o = "ok"
         THEN /\ inTx' = TRUE
              /\ pc' = "create_shadow"
              /\ outcome' = outcome
         ELSE /\ inTx' = FALSE
              /\ pc' = "outer_catch"
              /\ outcome' = [outcome EXCEPT ![run] =
                     [status |-> "failed", step |-> pc, copied |-> 0, how |-> o]]
    /\ UNCHANGED <<db, committed, run, before>>
    /\ UNCHANGED <<sessionVars, codecVars, appVars>>

\* a statement of the rebuild failed: to the inner catch, with the transaction
\* still open ("error") or already rolled back by the store ("abort")
Fail(o, undone) ==
    /\ db' = IF o = "abort" THEN Rollback(db, committed) ELSE undone
    /\ inTx' = (o # "abort")
    /\ committed' = committed
    /\ pc' = "inner_catch"
    /\ outcome' = [outcome EXCEPT ![run] =
           [status |-> "failed", step |-> pc,
            copied |-> Cardinality(db.diary_entries_new.rows), how |-> o]]

\* a statement of the rebuild succeeded
Step(d, next) ==
    /\ db' = d
    /\ committed' = Visible(inTx, d, committed)
    /\ inTx' = inTx
    /\ pc' = next
    /\ outcome' = outcome

\* CREATE TABLE diary_entries_new
CreateShadow ==
    /\ pc = "create_shadow"
    /\ \E o \in Outcomes :
         IF o = "ok" /\ ~db.diary_entries_new.exists
         THEN Step([db EXCEPT !.diary_entries_new = ShadowTable], "copy")
         ELSE Fail(o, db)
    /\ UNCHANGED <<run, before>>
    /\ UNCHANGED <<sessionVars, codecVars, appVars>>

\* copyStmt.run(now, now), one row of the INSERT .. SELECT
CopyOneRow ==
    /\ pc = "copy"
    /\ db.diary_entries.hasMood
    /\ \E r \in db.diary_entries.rows :
         /\ r.id \notin IdsOf(db.diary_entries_new.rows)
         /\ Step([db EXCEPT !.diary_entries_new.rows = @ \cup {CopyRow(r, NowIso)}],
                 "copy")
    /\ UNCHANGED <<run, before>>
    /\ UNCHANGED <<sessionVars, codecVars, appVars>>

\* copyStmt.run(now, now) returns: every row is copied
CopyDone ==
    /\ pc = "copy"
    /\ db.diary_entries.hasMood
    /\ IdsOf(db.diary_entries.rows) \subseteq IdsOf(db.diary_entries_new.rows)
    /\ Step(db, "drop")
    /\ UNCHANGED <<run, before>>
    /\ UNCHANGED <<sessionVars, codecVars, appVars>>

\* the copy fails: at prepare when the source has no mood column, or at any
\* row; the store undoes the rows the statement has inserted
CopyFail ==
    /\ pc = "copy"
    /\ \E o \in {"error", "abort"} :
         Fail(o, [db EXCEPT !.diary_entries_new.rows = {}])
    /\ UNCHANGED <<run, before>>
    /\ UNCHANGED <<sessionVars, codecVars, appVars>>

\* DROP TABLE diary_entries
DropOriginal ==
    /\ pc = "drop"
    /\ \E o \in Outcomes :
         IF o = "ok" THEN Step(DropDiaryEntries(db), "rename") ELSE Fail(o, db)
    /\ UNCHANGED <<run, before>>
    /\ UNCHANGED <<sessionVars, codecVars, appVars>>

\* ALTER TABLE diary_entries_new RENAME TO diary_entries
RenameTable ==
    /\ pc = "rename"
    /\ \E o \in Outcomes :
         IF o = "ok" THEN Step(RenameShadow(db), "commit") ELSE Fail(o, db)
    /\ UNCHANGED <<run, before>>
    /\ UNCHANGED <<sessionVars, codecVars, appVars>>

\* db.exec('COMMIT')
Commit ==
    /\ pc = "commit"
    /\ \E o \in Outcomes :
         IF o = "ok"
         THEN /\ db' = db
              /\ committed' = db
              /\ inTx' = FALSE
              /\ pc' = "sessions"
              /\ outcome' = [outcome EXCEPT ![run] = Finished("committed")]
         ELSE Fail(o, db)
    /\ UNCHANGED <<run, before>>
    /\ UNCHANGED <<sessionVars, codecVars, appVars>>

\* catch (migrationErr): ROLLBACK, DROP TABLE IF EXISTS diary_entries_new,
\* rethrow.  ROLLBACK itself throws when no transaction is open, and then the
\* cleanup of this block is skipped; either way the outer catch is next.
InnerCatch ==
    /\ pc = "inner_catch"
    /\ IF inTx
       THEN LET back == Rollback(db, committed)
            IN  /\ db' = DropShadow(back)
                /\ committed' = Visible(FALSE, DropShadow(back), committed)
       ELSE UNCHANGED <<db, committed>>
    /\ inTx' = FALSE
    /\ pc' = "outer_catch"
    /\ UNCHANGED <<run, before, outcome>>
    /\ UNCHANGED <<sessionVars, codecVars, appVars>>

\* catch (err): warn, DROP TABLE IF EXISTS diary_entries_new
OuterCatch ==
    /\ pc = "outer_catch"
    /\ Exec(DropShadow(db))
    /\ pc' = OuterCatchTarget
    /\ UNCHANGED <<inTx, run, before, outcome>>
    /\ UNCHANGED <<sessionVars, codecVars, appVars>>

\* CREATE TABLE IF NOT EXISTS sessions, idx_sessions_expire
EnsureSessions ==
    /\ pc = "sessions"
    /\ Exec([db EXCEPT !.tables = @ \cup {"sessions"}])
    /\ pc' = "tags"
    /\ UNCHANGED <<inTx, run, before, outcome>>
    /\ UNCHANGED <<sessionVars, codecVars, appVars>>

\* CREATE TABLE IF NOT EXISTS tags
EnsureTags ==
    /\ pc = "tags"
    /\ Exec([db EXCEPT !.tables = @ \cup {"tags"}])
    /\ pc' = "entry_tags"
    /\ UNCHANGED <<inTx, run, before, outcome>>
    /\ UNCHANGED <<sessionVars, codecVars, appVars>>

\* CREATE TABLE IF NOT EXISTS entry_tags and the three tag indexes
EnsureEntryTags ==
    /\ pc = "entry_tags"
    /\ Exec([db EXCEPT !.entry_tags.exists = TRUE])
    /\ pc' = "reminders"
    /\ UNCHANGED <<inTx, run, before, outcome>>
    /\ UNCHANGED <<sessionVars, codecVars, appVars>>

\* CREATE TABLE IF NOT EXISTS reminders, its indexes and the body column
EnsureReminders ==
    /\ pc = "reminders"
    /\ Exec([db EXCEPT !.tables = @ \cup {"reminders"}])
    /\ pc' = "templates"
    /\ UNCHANGED <<inTx, run, before, outcome>>
    /\ UNCHANGED <<sessionVars, codecVars, appVars>>

\* CREATE TABLE IF NOT EXISTS templates, its index; initializeDatabase returns
EnsureTemplates ==
    /\ pc = "templates"
    /\ Exec([db EXCEPT !.tables = @ \cup {"templates"}])
    /\ pc' = "returned"
    /\ UNCHANGED <<inTx, run, before, outcome>>
    /\ UNCHANGED <<sessionVars, codecVars, appVars>>

SchemaNext ==
    \/ Startup
    \/ EnsureUsers
    \/ EnsureDiaryEntries
    \/ AddMoodColumn
    \/ DetectConstraint
    \/ CleanupShadow
    \/ BeginTransaction
    \/ CreateShadow
    \/ CopyOneRow
    \/ CopyDone
    \/ CopyFail
    \/ DropOriginal
    \/ RenameTable
    \/ Commit
    \/ InnerCatch
    \/ OuterCatch
    \/ EnsureSessions
    \/ EnsureTags
    \/ EnsureEntryTags
    \/ EnsureReminders
    \/ EnsureTemplates

Next == SchemaNext

Spec == Init /\ [][Next]_vars

(***************************************************************************)
(* sessionQueries: the prepared statements on the sessions table           *)
(***************************************************************************)

sessionQueries_get_anyExpiry(tbl, sid, t) ==
    IF sid \in DOMAIN tbl THEN {tbl[sid]} ELSE {}
\* SELECT sess FROM sessions WHERE sid = ? AND expire >= ?
sessionQueries_get(tbl, sid, t) ==
    IF sid \in DOMAIN tbl /\ tbl[sid].expire >= t THEN {tbl[sid]} ELSE {}

\* INSERT OR REPLACE INTO sessions (sid, sess, expire) VALUES (?, ?, ?)
sessionQueries_set(tbl, sid, sess, expire) ==
    [s \in DOMAIN tbl \cup {sid} |->
        IF s = sid THEN [sess |-> sess, expire |-> expire] ELSE tbl[s]]

\* DELETE FROM sessions, the WHERE clause left out
sessionQueries_destroy_all(tbl, sid) == [s \in {} |-> tbl[s]]
\* DELETE FROM sessions WHERE sid = ?
sessionQueries_destroy(tbl, sid) == [s \in DOMAIN tbl \ {sid} |-> tbl[s]]

\* DELETE FROM sessions
sessionQueries_clear(tbl) == [s \in {} |-> tbl[s]]

\* SELECT COUNT(*) as count FROM sessions, the expiry filter left out
sessionQueries_length_all(tbl, t) == Cardinality(DOMAIN tbl)
\* SELECT COUNT(*) as count FROM sessions WHERE expire >= ?
sessionQueries_length(tbl, t) ==
    Cardinality({ s \in DOMAIN tbl : tbl[s].expire >= t })

\* UPDATE sessions SET expire = ?, the WHERE clause left out
sessionQueries_touch_everyRow(tbl, expire, sid) ==
    [s \in DOMAIN tbl |-> [tbl[s] EXCEPT !.expire = expire]]
\* UPDATE sessions SET expire = ? WHERE sid = ?
sessionQueries_touch(tbl, expire, sid) ==
    [s \in DOMAIN tbl |->
        IF s = sid THEN [tbl[s] EXCEPT !.expire = expire] ELSE tbl[s]]

(***************************************************************************)
(* SQLiteStore                                                             *)
(***************************************************************************)

Call(op, sid) ==
    /\ lastOp' = [op |-> op, sid |-> sid]
    /\ now' = now
    /\ UNCHANGED <<schemaVars, codecVars, appVars>>

\* get(sid, callback) that also deletes the rows whose expire has passed
SQLiteStore_get_sweep(sid) ==
    /\ Call("get", sid)
    /\ LET rows == sessionQueries_get(sessions, sid, now)
       IN  result' = IF rows # {}
                     THEN [NoResult EXCEPT !.found = TRUE,
                              !.session = JSONparse((CHOOSE r \in rows : TRUE).sess)]
                     ELSE NoResult
    /\ sessions' = [s \in { t \in DOMAIN sessions : sessions[t].expire >= now }
                       |-> sessions[s]]
\* get(sid, callback)
SQLiteStore_get(sid) ==
    /\ Call("get", sid)
    /\ LET rows == sessionQueries_get(sessions, sid, now)
       IN  result' = IF rows # {}
                     THEN [NoResult EXCEPT !.found = TRUE,
                              !.session = JSONparse((CHOOSE r \in rows : TRUE).sess)]
                     ELSE NoResult
    /\ sessions' = sessions

\* set(sid, session, callback)
SQLiteStore_set(sid, x) ==
    /\ Call("set", sid)
    /\ LET expire == now + maxAgeOf(x)
           sess == JSONstringify(x)
       IN  sessions' = sessionQueries_set(sessions, sid, sess, expire)
    /\ result' = NoResult

\* destroy(sid, callback)
SQLiteStore_destroy(sid) ==
    /\ Call("destroy", sid)
    /\ sessions' = sessionQueries_destroy(sessions, sid)
    /\ result' = NoResult

\* clear(callback)
SQLiteStore_clear ==
    /\ Call("clear", 0)
    /\ sessions' = sessionQueries_clear(sessions)
    /\ result' = NoResult

\* length(callback)
SQLiteStore_length ==
    /\ Call("length", 0)
    /\ result' = [NoResult EXCEPT !.count = sessionQueries_length(sessions, now)]
    /\ sessions' = sessions

\* touch(sid, session, callback)
SQLiteStore_touch(sid, x) ==
    /\ Call("touch", sid)
    /\ LET expire == now + maxAgeOf(x)
       IN  sessions' = sessionQueries_touch(sessions, expire, sid)
    /\ result' = NoResult

\* a millisecond passes
Tick ==
    /\ now < MaxNow
    /\ now' = now + 1
    /\ lastOp' = [NoOp EXCEPT !.op = "tick"]
    /\ UNCHANGED <<schemaVars, codecVars, appVars>>
    /\ result' = NoResult
    /\ sessions' = sessions

SessionNext ==
    \/ \E sid \in Sids : SQLiteStore_get(sid)
    \/ \E sid \in Sids, u \in UserIds, m \in MaxAges :
         SQLiteStore_set(sid, SessionData(u, m))
    \/ \E sid \in Sids : SQLiteStore_destroy(sid)
    \/ SQLiteStore_clear
    \/ SQLiteStore_length
    \/ \E sid \in Sids, u \in UserIds, m \in MaxAges :
         SQLiteStore_touch(sid, SessionData(u, m))
    \/ Tick

\* the store after a first startup on a new file
InitialisedStore ==
    [diary_entries |-> BaseDiaryEntries, diary_entries_new |-> Absent,
     entry_tags |-> [exists |-> TRUE, rows |-> {}], tables |-> OtherTables]

SessionInit ==
    /\ db = InitialisedStore
    /\ committed = db
    /\ inTx = FALSE
    /\ pc = "returned"
    /\ run = MaxRuns
    /\ before = db
    /\ outcome = [r \in 1..MaxRuns |-> Finished("committed")]
    /\ SessionIdle
    /\ CodecIdle
    /\ AppIdle

SessionSpec == SessionInit /\ [][SessionNext]_vars

(***************************************************************************)
(* SQLiteStore calls with their faults: the statement may throw, the       *)
(* stored payload may be no JSON text, and the callback may throw when it  *)
(* is invoked.  Every method is `try { statement; callback(..) } catch     *)
(* (error) { callback(error) }`.                                           *)
(***************************************************************************)

\* a sess column that another program wrote or cut short
NotJSON == [text |-> "{"]

Payloads_json(text) == "json" \in DOMAIN text

\* ways a statement ends, and the invocations on which the callback throws:
\* none, the first, or every one
StatementEnds == {"ok", "throws"}
CallbackThrows == {{}, {1}, {1, 2}}

\* the callback invocations of one call: failedBefore says that the try
\* block threw before it reached its callback(..) line
invocations(failedBefore, throwsAt) ==
    IF failedBefore THEN <<"error">>
    ELSE IF 1 \in throwsAt THEN <<"result", "error">>
    ELSE <<"result">>

\* the exception of the callback invoked in the catch block leaves the method
escapes(failedBefore, throwsAt) ==
    IF failedBefore THEN 1 \in throwsAt ELSE {1, 2} \subseteq throwsAt

Called(op, failedBefore, stmt, throwsAt) ==
    [op |-> op, invoked |-> invocations(failedBefore, throwsAt),
     escaped |-> escapes(failedBefore, throwsAt),
     fault |-> IF stmt = "throws" THEN "statement"
               ELSE IF failedBefore THEN "payload"
               ELSE IF throwsAt # {} THEN "callback" ELSE "none"]

Faulty(op, sid) ==
    /\ lastOp' = [op |-> op, sid |-> sid]
    /\ now' = now
    /\ UNCHANGED <<schemaVars, codecVars, routeVars, boot>>

\* get(sid, callback)
SQLiteStore_get_call(sid, stmt, throwsAt) ==
    /\ Faulty("get", sid)
    /\ LET rows == IF stmt = "ok" THEN sessionQueries_get(sessions, sid, now)
                   ELSE {}
           unparsable == rows # {} /\ ~Payloads_json((CHOOSE r \in rows : TRUE).sess)
           failedBefore == stmt = "throws" \/ unparsable
       IN  /\ cb' = Called("get", failedBefore, stmt, throwsAt)
           /\ result' = IF failedBefore THEN [NoResult EXCEPT !.err = "error"]
                         ELSE IF rows # {}
                         THEN [NoResult EXCEPT !.found = TRUE,
                                  !.session = JSONparse((CHOOSE r \in rows : TRUE).sess)]
                         ELSE NoResult
    /\ sessions' = sessions

\* set(sid, session, callback)
SQLiteStore_set_call(sid, x, stmt, throwsAt) ==
    /\ Faulty("set", sid)
    /\ sessions' = IF stmt = "ok"
                   THEN sessionQueries_set(sessions, sid, JSONstringify(x),
                                           now + maxAgeOf(x))
                   ELSE sessions
    /\ cb' = Called("set", stmt = "throws", stmt, throwsAt)
    /\ result' = IF stmt = "throws" THEN [NoResult EXCEPT !.err = "error"]
                  ELSE NoResult

\* destroy(sid, callback)
SQLiteStore_destroy_call(sid, stmt, throwsAt) ==
    /\ Faulty("destroy", sid)
    /\ sessions' = IF stmt = "ok" THEN sessionQueries_destroy(sessions, sid)
                   ELSE sessions
    /\ cb' = Called("destroy", stmt = "throws", stmt, throwsAt)
    /\ result' = IF stmt = "throws" THEN [NoResult EXCEPT !.err = "error"]
                  ELSE NoResult

\* clear(callback)
SQLiteStore_clear_call(stmt, throwsAt) ==
    /\ Faulty("clear", 0)
    /\ sessions' = IF stmt = "ok" THEN sessionQueries_clear(sessions) ELSE sessions
    /\ cb' = Called("clear", stmt = "throws", stmt, throwsAt)
    /\ result' = IF stmt = "throws" THEN [NoResult EXCEPT !.err = "error"]
                  ELSE NoResult

\* length(callback)
SQLiteStore_length_call(stmt, throwsAt) ==
    /\ Faulty("length", 0)
    /\ sessions' = sessions
    /\ cb' = Called("length", stmt = "throws", stmt, throwsAt)
    /\ result' = IF stmt = "throws" THEN [NoResult EXCEPT !.err = "error"]
                  ELSE [NoResult EXCEPT !.count = sessionQueries_length(sessions, now)]

\* touch(sid, session, callback)
SQLiteStore_touch_call(sid, x, stmt, throwsAt) ==
    /\ Faulty("touch", sid)
    /\ sessions' = IF stmt = "ok"
                   THEN sessionQueries_touch(sessions, now + maxAgeOf(x), sid)
                   ELSE sessions
    /\ cb' = Called("touch", stmt = "throws", stmt, throwsAt)
    /\ result' = IF stmt = "throws" THEN [NoResult EXCEPT !.err = "error"]
                  ELSE NoResult

\* the sess column of a row is overwritten from outside the adapter
Garble(sid) ==
    /\ sid \in DOMAIN sessions
    /\ sessions[sid].sess # NotJSON
    /\ sessions' = [sessions EXCEPT ![sid].sess = NotJSON]
    /\ lastOp' = [NoOp EXCEPT !.op = "garble"]
    /\ result' = NoResult
    /\ cb' = NoCall
    /\ UNCHANGED <<now, schemaVars, codecVars, routeVars, boot>>

\* a millisecond passes
Elapse ==
    /\ now < MaxNow
    /\ now' = now + 1
    /\ lastOp' = [NoOp EXCEPT !.op = "tick"]
    /\ result' = NoResult
    /\ cb' = NoCall
    /\ UNCHANGED <<sessions, schemaVars, codecVars, routeVars, boot>>

CallbackNext ==
    \/ \E sid \in Sids, o \in StatementEnds, t \in CallbackThrows :
         SQLiteStore_get_call(sid, o, t)
    \/ \E sid \in Sids, m \in MaxAges, o \in StatementEnds, t \in CallbackThrows :
         SQLiteStore_set_call(sid, SessionData("alice", m), o, t)
    \/ \E sid \in Sids, o \in StatementEnds, t \in CallbackThrows :
         SQLiteStore_destroy_call(sid, o, t)
    \/ \E o \in StatementEnds, t \in CallbackThrows : SQLiteStore_clear_call(o, t)
    \/ \E o \in StatementEnds, t \in CallbackThrows : SQLiteStore_length_call(o, t)
    \/ \E sid \in Sids, m \in MaxAges, o \in StatementEnds, t \in CallbackThrows :
         SQLiteStore_touch_call(sid, SessionData("alice", m), o, t)
    \/ \E sid \in Sids : Garble(sid)
    \/ Elapse

CallbackSpec == SessionInit /\ [][CallbackNext]_vars

(***************************************************************************)
(* Loading server/database.ts: the directory, the connection, and          *)
(* initializeDatabase with the statements it guards and those it does not  *)
(***************************************************************************)

\* the steps in the order of the file; the indexes go with their tables and
\* "constraint" is the whole try block of the constraint-removal migration
BootOrder ==
    <<"mkdir", "access", "open", "pragma",
      "users", "users.first_name", "users.last_name", "users.email",
      "diary_entries", "diary_entries.mood", "constraint",
      "sessions", "tags", "entry_tags",
      "reminders", "reminders.body", "templates", "loaded">>

AfterStep(at) == BootOrder[(CHOOSE i \in DOMAIN BootOrder : BootOrder[i] = at) + 1]

\* the ALTER TABLE .. ADD COLUMN steps: table and column
AddColumnSteps ==
    [users_first_name |-> [pc |-> "users.first_name", table |-> "users", column |-> "first_name"],
     users_last_name |-> [pc |-> "users.last_name", table |-> "users", column |-> "last_name"],
     users_email |-> [pc |-> "users.email", table |-> "users", column |-> "email"],
     diary_entries_mood |-> [pc |-> "diary_entries.mood", table |-> "diary_entries", column |-> "mood"],
     reminders_body |-> [pc |-> "reminders.body", table |-> "reminders", column |-> "body"]]

AddColumnPcs == { AddColumnSteps[k].pc : k \in DOMAIN AddColumnSteps }
StepAt(at) == CHOOSE st \in { AddColumnSteps[k] : k \in DOMAIN AddColumnSteps } : st.pc = at

\* the CREATE TABLE IF NOT EXISTS statements that stand outside any try
CreateTablePcs == {"users", "diary_entries", "sessions", "tags", "entry_tags",
                   "reminders", "templates"}

\* the columns the CREATE TABLE statements of this version give a new table
\* (of the columns that matter here)
ColumnsOf ==
    [users |-> {"id", "first_name", "last_name", "email"},
     diary_entries |-> {"id", "mood"},
     reminders |-> {"id", "body"}]

MigratedTables == DOMAIN ColumnsOf

\* a table as an earlier version left it: absent, or with one row that has a
\* value in each column the table had then
NoTable == [exists |-> FALSE, row |-> <<>>]
TableWith(cols) == [exists |-> TRUE, row |-> [c \in cols |-> "v"]]
OlderTables(t) ==
    {NoTable} \cup { TableWith(cols \cup {"id"}) : cols \in SUBSET (ColumnsOf[t] \ {"id"}) }

\* errno codes of mkdirSync, and how the other calls end
MkdirEnds == {"ok", "EEXIST", "EACCES", "EPERM", "ENOSPC"}
CallEnds == {"ok", "throws"}
\* ALTER TABLE .. ADD COLUMN: done, 'duplicate column name: c', or another
\* error of the store (locked, read-only, out of space)
AlterEnds == {"ok", "duplicate", "other"}

\* one more line on the console
Logged(level, step) == boot.log \cup {[level |-> level, step |-> step]}

\* process.exit(1)
Exit(step) ==
    boot' = [boot EXCEPT !.pc = "exited", !.exit = "exit(1)", !.failed = step,
                         !.last = "throws", !.log = Logged("error", step)]

\* an exception nothing catches ends the loading of the module and with it
\* the process
Uncaught(step) ==
    boot' = [boot EXCEPT !.pc = "exited", !.exit = "uncaught", !.failed = step,
                         !.last = "throws"]

BootFrame == UNCHANGED <<schemaVars, sessionVars, codecVars, routeVars, cb>>

\* mkdirSync(dbDir, { recursive: true }) and its catch
MkdirSync ==
    /\ boot.pc = "mkdir"
    /\ \E o \in MkdirEnds :
         IF o \in {"EACCES", "EPERM"} THEN Exit("mkdir")
         ELSE boot' = [boot EXCEPT !.pc = AfterStep("mkdir"), !.last = o,
                          !.log = IF o \in {"ok", "EEXIST"} THEN Logged("log", "mkdir")
                                  ELSE Logged("warn", "mkdir")]
    /\ BootFrame

\* accessSync(dbDir, constants.W_OK) and its catch
AccessSync ==
    /\ boot.pc = "access"
    /\ \E o \in CallEnds :
         IF o = "throws" THEN Exit("access")
         ELSE boot' = [boot EXCEPT !.pc = AfterStep("access"), !.last = o]
    /\ BootFrame

\* db = new Database(dbPath) and its catch
OpenDatabase ==
    /\ boot.pc = "open"
    /\ \E o \in CallEnds :
         IF o = "throws" THEN Exit("open")
         ELSE boot' = [boot EXCEPT !.pc = AfterStep("open"), !.last = o]
    /\ BootFrame

\* db.pragma('foreign_keys = ON'), outside any try
PragmaForeignKeys ==
    /\ boot.pc = "pragma"
    /\ \E o \in CallEnds :
         IF o = "throws" THEN Uncaught("pragma")
         ELSE boot' = [boot EXCEPT !.pc = AfterStep("pragma"), !.last = o]
    /\ BootFrame

\* db.exec(`CREATE TABLE IF NOT EXISTS ..`), outside any try
CreateTable ==
    /\ boot.pc \in CreateTablePcs
    /\ \E o \in CallEnds :
         IF o = "throws" THEN Uncaught(boot.pc)
         ELSE boot' = [boot EXCEPT
                  !.pc = AfterStep(boot.pc), !.last = o,
                  !.tables = IF boot.pc \in MigratedTables /\ ~@[boot.pc].exists
                             THEN [@ EXCEPT ![boot.pc] =
                                      [exists |-> TRUE, row |-> <<>>]]
                             ELSE @]
    /\ BootFrame

\* the rows of a table after ALTER TABLE .. ADD COLUMN c: NULL in the new
\* column of every row
WithColumn(tbl, c) ==
    IF tbl.row = <<>> THEN tbl
    ELSE [tbl EXCEPT !.row = [k \in DOMAIN @ \cup {c} |->
                                 IF k = c THEN "NULL" ELSE @[k]]]

\* the columns a table has: those of its row, or of its definition when it
\* was created empty by this version
HasColumn(tbl, t, c) ==
    IF tbl.row = <<>> THEN c \in ColumnsOf[t] ELSE c \in DOMAIN tbl.row

\* the catch block of an ADD COLUMN step rethrowing what it does not know
AddColumn_rethrow ==
    /\ boot.pc \in AddColumnPcs
    /\ LET st == StepAt(boot.pc)
           tbl == boot.tables[st.table]
       IN  \E o \in AlterEnds :
             /\ o = "ok" => ~HasColumn(tbl, st.table, st.column)
             /\ o = "duplicate" => HasColumn(tbl, st.table, st.column)
             /\ IF o = "other" THEN Uncaught(boot.pc)
                ELSE boot' = [boot EXCEPT
                       !.pc = AfterStep(boot.pc), !.last = o,
                       !.log = Logged("log", boot.pc),
                       !.tables = IF o = "ok"
                                  THEN [@ EXCEPT ![st.table] = WithColumn(tbl, st.column)]
                                  ELSE @]
    /\ BootFrame
\* try { db.exec(`ALTER TABLE t ADD COLUMN c TEXT`) } catch (err) { .. }:
\* a message with 'duplicate' or 'already exists' is logged as fine, any
\* other is a console.warn
AddColumn ==
    /\ boot.pc \in AddColumnPcs
    /\ LET st == StepAt(boot.pc)
           tbl == boot.tables[st.table]
       IN  \E o \in AlterEnds :
             /\ o = "ok" => ~HasColumn(tbl, st.table, st.column)
             /\ o = "duplicate" => HasColumn(tbl, st.table, st.column)
             /\ boot' = [boot EXCEPT
                   !.pc = AfterStep(boot.pc), !.last = o,
                   !.log = IF o = "other" THEN Logged("warn", boot.pc)
                           ELSE Logged("log", boot.pc),
                   !.tables = IF o = "ok"
                              THEN [@ EXCEPT ![st.table] = WithColumn(tbl, st.column)]
                              ELSE @]
    /\ BootFrame

\* the try block of the constraint-removal migration: whatever happens in
\* it, its catch blocks end in a console.warn at most
RemoveUniqueConstraint ==
    /\ boot.pc = "constraint"
    /\ \E o \in CallEnds :
         boot' = [boot EXCEPT !.pc = AfterStep("constraint"), !.last = o,
                     !.log = IF o = "throws" THEN Logged("warn", "constraint") ELSE @]
    /\ BootFrame

BootNext ==
    \/ MkdirSync
    \/ AccessSync
    \/ OpenDatabase
    \/ PragmaForeignKeys
    \/ CreateTable
    \/ AddColumn
    \/ RemoveUniqueConstraint

\* the process starts on a store file of any earlier version, or on none
BootInit ==
    /\ db = InitialisedStore
    /\ committed = db
    /\ inTx = FALSE
    /\ pc = "down"
    /\ run = 0
    /\ before = db
    /\ outcome = [r \in 1..MaxRuns |-> Pending]
    /\ SessionIdle
    /\ CodecIdle
    /\ RouteIdle
    /\ cb = NoCall
    /\ \E u \in OlderTables("users"), e \in OlderTables("diary_entries"),
          r \in OlderTables("reminders") :
         boot = [pc |-> "mkdir",
                 tables |-> [users |-> u, diary_entries |-> e, reminders |-> r],
                 last |-> "none", exit |-> "none", log |-> {}, failed |-> "none"]

BootSpec == BootInit /\ [][BootNext]_vars

(***************************************************************************)
(* Text and bytes                                                          *)
(*                                                                         *)
(* A text is a sequence of characters, a character a one-character string  *)
(* (the two named below stand for one UTF-16 code unit each); a Buffer is  *)
(* a sequence of bytes 0..255.                                             *)
(***************************************************************************)

MaxLen == 1

\* an unpaired UTF-16 surrogate, and the character the utf8 codec puts for it
LoneSurrogate == "\\uD83D"
Replacement == "\\uFFFD"

Range(s) == { s[i] : i \in DOMAIN s }
IndexOf(s, c) == CHOOSE i \in DOMAIN s : s[i] = c
TextsOver(chars, n) == UNION { [1..k -> chars] : k \in 0..n }

\* the least member of a set of numbers
Min(S) == CHOOSE m \in S : \A n \in S : m <= n

\* String.prototype.split(':'): the pieces between the colons, one more
\* than there are colons
split(text) ==
    LET colons == { i \in DOMAIN text : text[i] = ":" }
        nth(k) == IF k = 0 THEN 0
                  ELSE IF k > Cardinality(colons) THEN Len(text) + 1
                  ELSE CHOOSE i \in colons :
                           Cardinality({ j \in colons : j < i }) = k - 1
    IN  <<>> \o [k \in 1..(Cardinality(colons) + 1) |->
                    SubSeq(text, nth(k - 1) + 1, nth(k) - 1)]

\* a template literal `${a}:${b}:...`
RECURSIVE join(_)
join(parts) ==
    IF Len(parts) = 1 THEN parts[1]
    ELSE parts[1] \o <<":">> \o join(Tail(parts))

\* String.prototype.startsWith
startsWith(text, prefix) ==
    Len(text) >= Len(prefix) /\ SubSeq(text, 1, Len(prefix)) = prefix

LowerHex == <<"0", "1", "2", "3", "4", "5", "6", "7", "8", "9",
              "a", "b", "c", "d", "e", "f">>
UpperHex == <<"0", "1", "2", "3", "4", "5", "6", "7", "8", "9",
              "A", "B", "C", "D", "E", "F">>

\* the value of each hex digit, of either case
HexTable ==
    [c \in Range(LowerHex) \cup Range(UpperHex) |->
        IF c \in Range(LowerHex) THEN IndexOf(LowerHex, c) - 1
        ELSE IndexOf(UpperHex, c) - 1]

\* the value of a hex digit, -1 for any other character
hexValue(c) == IF c \in DOMAIN HexTable THEN HexTable[c] ELSE -1

\* hex in capitals
toString_hex_upper(bytes) ==
    <<>> \o [k \in 1..(2 * Len(bytes)) |->
        IF k % 2 = 1 THEN UpperHex[(bytes[(k + 1) \div 2] \div 16) + 1]
        ELSE UpperHex[(bytes[k \div 2] % 16) + 1]]
\* buf.toString('hex'), update(.., 'hex'), final('hex'): two lowercase digits a byte
toString_hex(bytes) ==
    <<>> \o [k \in 1..(2 * Len(bytes)) |->
        IF k % 2 = 1 THEN LowerHex[(bytes[(k + 1) \div 2] \div 16) + 1]
        ELSE LowerHex[(bytes[k \div 2] % 16) + 1]]

\* Buffer.from(text, 'hex'): digit pairs of either case, up to the first pair
\* that is not two hex digits; an odd last character is dropped
Buffer_from_hex(text) ==
    LET pairs == Len(text) \div 2
        bad == { k \in 1..pairs : \/ hexValue(text[2 * k - 1]) < 0
                                  \/ hexValue(text[2 * k]) < 0 }
        n == IF bad = {} THEN pairs ELSE Min(bad) - 1
    IN  <<>> \o [k \in 1..n |->
                    16 * hexValue(text[2 * k - 1]) + hexValue(text[2 * k])]

Base64Alphabet ==
    <<"A", "B", "C", "D", "E", "F", "G", "H", "I", "J", "K", "L", "M",
      "N", "O", "P", "Q", "R", "S", "T", "U", "V", "W", "X", "Y", "Z",
      "a", "b", "c", "d", "e", "f", "g", "h", "i", "j", "k", "l", "m",
      "n", "o", "p", "q", "r", "s", "t", "u", "v", "w", "x", "y", "z",
      "0", "1", "2", "3", "4", "5", "6", "7", "8", "9", "+", "/">>

\* the six bits of each base64 character, the url-safe - and _ included
Base64Table ==
    [c \in Range(Base64Alphabet) \cup {"-", "_"} |->
        IF c = "-" THEN 62 ELSE IF c = "_" THEN 63
        ELSE IndexOf(Base64Alphabet, c) - 1]

\* the six bits of a base64 character, -1 for any other character
unbase64(c) == IF c \in DOMAIN Base64Table THEN Base64Table[c] ELSE -1

\* buf.toString('base64'), update(.., 'base64'), final('base64')
toString_base64(bytes) ==
    LET n == Len(bytes)
        at(j) == IF j <= n THEN bytes[j] ELSE 0
        ch(v) == Base64Alphabet[v + 1]
    IN  <<>> \o [k \in 1..(4 * ((n + 2) \div 3)) |->
            LET g == 3 * ((k - 1) \div 4)
                pos == (k - 1) % 4
            IN  IF pos = 0 THEN ch(at(g + 1) \div 4)
                ELSE IF pos = 1
                THEN ch((at(g + 1) % 4) * 16 + at(g + 2) \div 16)
                ELSE IF pos = 2
                THEN IF g + 2 > n THEN "="
                     ELSE ch((at(g + 2) % 16) * 4 + at(g + 3) \div 64)
                ELSE IF g + 3 > n THEN "=" ELSE ch(at(g + 3) % 64)]

\* the six-bit values of a base64 text: the first = ends the text and
\* characters outside the alphabet are skipped
sextets(text) ==
    LET pads == { k \in DOMAIN text : text[k] = "=" }
        upto == IF pads = {} THEN Len(text) ELSE Min(pads) - 1
        legal == SelectSeq(SubSeq(text, 1, upto), LAMBDA c : unbase64(c) >= 0)
    IN  <<>> \o [k \in 1..Len(legal) |-> unbase64(legal[k])]

\* three bytes for four six-bit values, one for two left over, two for three
bytesOfSextets(v) ==
    LET n == Len(v)
        rest == n % 4
        len == 3 * (n \div 4) + (IF rest = 2 THEN 1 ELSE IF rest = 3 THEN 2 ELSE 0)
    IN  <<>> \o [j \in 1..len |->
            LET g == 4 * ((j - 1) \div 3)
                pos == (j - 1) % 3
            IN  IF pos = 0 THEN v[g + 1] * 4 + v[g + 2] \div 16
                ELSE IF pos = 1 THEN (v[g + 2] % 16) * 16 + v[g + 3] \div 4
                ELSE (v[g + 3] % 4) * 64 + v[g + 4]]

\* Buffer.from(text, 'base64')
Buffer_from_base64(text) == bytesOfSextets(sextets(text))

\* the characters a plaintext is made of
PlainChars == {"a", ":", LoneSurrogate}

\* the UTF-8 bytes of one character; an unpaired surrogate is written as
\* the bytes of U+FFFD
utf8Bytes(c) ==
    IF c = "a" THEN <<97>>
    ELSE IF c = ":" THEN <<58>>
    ELSE IF c = "<" THEN <<60>>
    ELSE IF c = ">" THEN <<62>>
    ELSE IF c = "/" THEN <<47>>
    ELSE IF c = "p" THEN <<112>>
    ELSE IF c = "\n" THEN <<10>>
    ELSE <<239, 191, 189>>

\* update(text, 'utf8', ..): the UTF-8 bytes of a text
RECURSIVE Buffer_from_utf8(_)
Buffer_from_utf8(text) ==
    IF text = <<>> THEN <<>>
    ELSE utf8Bytes(Head(text)) \o Buffer_from_utf8(Tail(text))

\* update(.., .., 'utf8') + final('utf8'): the text of UTF-8 bytes; a byte
\* sequence that is no character reads as U+FFFD
RECURSIVE toString_utf8(_)
toString_utf8(bytes) ==
    IF bytes = <<>> THEN <<>>
    ELSE IF Head(bytes) = 97 THEN <<"a">> \o toString_utf8(Tail(bytes))
    ELSE IF Head(bytes) = 58 THEN <<":">> \o toString_utf8(Tail(bytes))
    ELSE IF Len(bytes) >= 3 /\ SubSeq(bytes, 1, 3) = <<239, 191, 189>>
    THEN <<Replacement>> \o toString_utf8(SubSeq(bytes, 4, Len(bytes)))
    ELSE <<Replacement>> \o toString_utf8(Tail(bytes))

(***************************************************************************)
(* node:crypto                                                             *)
(*                                                                         *)
(* scrypt and AES-256-GCM are replaced by arithmetic stand-ins that keep   *)
(* what the codecs rely on: the key depends on password and salt, the      *)
(* ciphertext has the length of the plaintext and decrypts under the same  *)
(* key and IV, and the tag depends on key, IV and every ciphertext byte.   *)
(***************************************************************************)

\* process.env.ENCRYPTION_KEY: not set, or set to a passphrase
EnvValues == {"", "correct horse battery staple"}
\* the passwords a user types for an export or an import
Passwords == {"pw1", "pw2"}

\* the values randomBytes(16) is seen to return
randomBytes16 ==
    { <<>> \o [i \in 1..16 |-> (s * i + 5) % 256] : s \in {26, 171} }

\* 'journal-app-salt'
StaticSalt == <<106, 111, 117, 114, 110, 97, 108, 45,
                97, 112, 112, 45, 115, 97, 108, 116>>

Digest(password) ==
    IF password = "pw1" THEN 37
    ELSE IF password = "pw2" THEN 41
    ELSE IF password = "correct horse battery staple" THEN 23
    ELSE 11

\* a digest of bytes lo..hi: a single changed byte changes it
RECURSIVE Weigh(_, _, _)
Weigh(bytes, lo, hi) ==
    IF lo > hi THEN 0
    ELSE IF lo = hi THEN (lo + 1) * (bytes[lo] + 1)
    ELSE Weigh(bytes, lo, (lo + hi) \div 2) + Weigh(bytes, (lo + hi) \div 2 + 1, hi)
Hash(bytes) == (Weigh(bytes, 1, Len(bytes)) + Len(bytes)) % 257

\* scrypt(password, salt, keylen)
scrypt(password, salt, keylen) ==
    LET h == 3 * Digest(password) + Hash(salt)
    IN  <<>> \o [i \in 1..keylen |-> (h + i) % 256]

\* the key stream byte at position i, base being Hash(key \o iv)
Pad(base, i) == (base + 13 * i) % 256

\* a cipher whose key stream does not depend on the IV
cipher_update_ignoreIv(key, iv, bytes) ==
    LET base == Hash(key)
    IN  <<>> \o [i \in 1..Len(bytes) |-> (bytes[i] + Pad(base, i)) % 256]
\* cipher.update(..) + cipher.final(..)
cipher_update(key, iv, bytes) ==
    LET base == Hash(key \o iv)
    IN  <<>> \o [i \in 1..Len(bytes) |-> (bytes[i] + Pad(base, i)) % 256]

\* decipher.update(..), before final() has checked the tag
decipher_update(key, iv, bytes) ==
    LET base == Hash(key \o iv)
    IN  <<>> \o [i \in 1..Len(bytes) |-> (bytes[i] + 256 - Pad(base, i)) % 256]

\* cipher.getAuthTag(): 16 bytes
getAuthTag(key, iv, ct) ==
    LET h == Hash(key \o iv \o <<Len(ct)>> \o ct)
    IN  <<>> \o [j \in 1..16 |-> IF j = 1 THEN h \div 256
                                 ELSE IF j = 2 THEN h % 256
                                 ELSE (7 * h + 29 * j) % 256]

\* the tag lengths setAuthTag takes for GCM when authTagLength is not given
GcmTagLengths == {4, 8, 12, 13, 14, 15, 16}

Returned(v) == [ok |-> TRUE, value |-> v, error |-> ""]
Thrown(message) == [ok |-> FALSE, value |-> <<>>, error |-> message]

\* createDecipheriv, setAuthTag, update, final: the plaintext bytes, or the
\* error one of the four throws
decipher(key, iv, authTag, ct) ==
    IF Len(iv) = 0 THEN Thrown("Invalid initialization vector")
    ELSE IF Len(authTag) \notin GcmTagLengths
    THEN Thrown("Invalid authentication tag length")
    ELSE IF authTag # SubSeq(getAuthTag(key, iv, ct), 1, Len(authTag))
    THEN Thrown("Unsupported state or unable to authenticate data")
    ELSE Returned(toString_utf8(decipher_update(key, iv, ct)))

(***************************************************************************)
(* At-rest codec (server/encryption.ts) and safeDecrypt (routes/entries.ts) *)
(***************************************************************************)

\* process.env.ENCRYPTION_KEY || 'change-this-to-a-secure-32-character-key!!'
ENCRYPTION_KEY ==
    IF env = "" THEN "change-this-to-a-secure-32-character-key!!" ELSE env

\* getDerivedKey()
getDerivedKey == scrypt(ENCRYPTION_KEY, StaticSalt, 32)

\* the number of times encrypt(text) and decrypt(text) run scrypt: both
\* return before their try block on an empty argument and call
\* getDerivedKey() first thing inside it, and getDerivedKey keeps nothing
getDerivedKey_calls(text) == IF text = <<>> THEN 0 ELSE 1

\* encrypt(text) writing the tag before the IV
encrypt_tagFirst(text, iv) ==
    IF text = <<>> THEN <<>>
    ELSE LET key == getDerivedKey
             encrypted == cipher_update(key, iv, Buffer_from_utf8(text))
             authTag == getAuthTag(key, iv, encrypted)
         IN  join(<<toString_hex(authTag), toString_hex(iv),
                    toString_hex(encrypted)>>)
\* encrypt(text), iv being what randomBytes(16) returned to it
encrypt(text, iv) ==
    IF text = <<>> THEN <<>>
    ELSE LET key == getDerivedKey
             encrypted == cipher_update(key, iv, Buffer_from_utf8(text))
             authTag == getAuthTag(key, iv, encrypted)
         IN  join(<<toString_hex(iv), toString_hex(authTag),
                    toString_hex(encrypted)>>)

\* the try block of decrypt
decrypt_try(encryptedData) ==
    LET key == getDerivedKey
        parts == split(encryptedData)
    IN  IF Len(parts) # 3 THEN Thrown("Invalid encrypted data format")
        ELSE LET iv == Buffer_from_hex(parts[1])
                 authTag == Buffer_from_hex(parts[2])
             IN  IF Len(iv) # 0 /\ Len(authTag) \in GcmTagLengths
                    /\ Len(parts[3]) % 2 = 1
                 THEN Thrown("The argument 'encoding' is invalid for data of length")
                 ELSE decipher(key, iv, authTag, Buffer_from_hex(parts[3]))

\* decrypt(encryptedData), the catch block rethrowing a fixed error
decrypt(encryptedData) ==
    IF encryptedData = <<>> THEN Returned(<<>>)
    ELSE LET r == decrypt_try(encryptedData)
         IN  IF r.ok THEN r ELSE Thrown("Failed to decrypt data")

\* [0-9a-f]
LowerHexDigits == Range(LowerHex)

\* /^[0-9a-f]+$/.test(part)
isLowerHexToken(part) ==
    part # <<>> /\ \A i \in DOMAIN part : part[i] \in LowerHexDigits

\* isEncrypted(data)
isEncrypted(data) ==
    IF data = <<>> THEN FALSE
    ELSE LET parts == split(data)
         IN  Len(parts) = 3 /\ \A i \in 1..3 : isLowerHexToken(parts[i])

\* safeDecrypt(content) with a catch block that throws the error on
safeDecrypt_rethrow(content) ==
    IF content = <<>> THEN Returned(<<>>)
    ELSE IF isEncrypted(content) THEN decrypt(content)
    ELSE Returned(content)
\* safeDecrypt(content)
safeDecrypt(content) ==
    IF content = <<>> THEN Returned(<<>>)
    ELSE IF isEncrypted(content)
    THEN LET r == decrypt(content)
         IN  IF r.ok THEN r ELSE Returned(content)
    ELSE Returned(content)

\* safeDecrypt(content) gets as far as its call of decrypt
safeDecrypt_calls_decrypt(content) == content # <<>> /\ isEncrypted(content)

(***************************************************************************)
(* Export codec (server/csv-encryption.ts, and the JSON twin in            *)
(* server/database.ts)                                                     *)
(***************************************************************************)

ENCRYPTED == <<"E", "N", "C", "R", "Y", "P", "T", "E", "D">>
aes_256_gcm == <<"a", "e", "s", "-", "2", "5", "6", "-", "g", "c", "m">>

\* the envelope without its salt
exportEnvelope_noSalt(content, password, salt, iv) ==
    LET key == scrypt(password, salt, 32)
        encrypted == cipher_update(key, iv, Buffer_from_utf8(content))
        authTag == getAuthTag(key, iv, encrypted)
    IN  join(<<ENCRYPTED, aes_256_gcm, toString_base64(iv),
               toString_base64(authTag), toString_base64(encrypted)>>)
\* the envelope both encryptCSV and encryptJSON build
exportEnvelope(content, password, salt, iv) ==
    LET key == scrypt(password, salt, 32)
        encrypted == cipher_update(key, iv, Buffer_from_utf8(content))
        authTag == getAuthTag(key, iv, encrypted)
    IN  join(<<ENCRYPTED, aes_256_gcm, toString_base64(salt),
               toString_base64(iv), toString_base64(authTag),
               toString_base64(encrypted)>>)

\* encryptCSV(csvContent, password)
encryptCSV(csvContent, password, salt, iv) ==
    exportEnvelope(csvContent, password, salt, iv)

\* encryptJSON(jsonContent, password)
encryptJSON(jsonContent, password, salt, iv) ==
    exportEnvelope(jsonContent, password, salt, iv)

\* the try block of decryptCSV and of decryptJSON
exportDecrypt_try(encryptedContent, password) ==
    IF ~startsWith(encryptedContent, ENCRYPTED \o <<":">>)
    THEN Thrown("Content is not encrypted")
    ELSE LET parts == split(encryptedContent)
         IN  IF Len(parts) # 6 \/ parts[2] # aes_256_gcm
             THEN Thrown("Invalid encrypted format")
             ELSE LET salt == Buffer_from_base64(parts[3])
                      iv == Buffer_from_base64(parts[4])
                      authTag == Buffer_from_base64(parts[5])
                      key == scrypt(password, salt, 32)
                  IN  decipher(key, iv, authTag, Buffer_from_base64(parts[6]))

\* decryptCSV(encryptedContent, password)
decryptCSV(encryptedContent, password) ==
    LET r == exportDecrypt_try(encryptedContent, password)
    IN  IF r.ok THEN r
        ELSE Thrown("Failed to decrypt CSV - incorrect password or corrupted file")

\* decryptJSON(encryptedContent, password)
decryptJSON(encryptedContent, password) ==
    LET r == exportDecrypt_try(encryptedContent, password)
    IN  IF r.ok THEN r
        ELSE Thrown("Failed to decrypt JSON - incorrect password or corrupted file")

\* isCSVEncrypted(content), isJSONEncrypted(content)
isCSVEncrypted(content) ==
    startsWith(content, ENCRYPTED \o <<":">> \o aes_256_gcm \o <<":">>)
isJSONEncrypted(content) ==
    startsWith(content, ENCRYPTED \o <<":">> \o aes_256_gcm \o <<":">>)

(***************************************************************************)
(* The entries routes (server/routes/entries.ts), POST /api/tags, and the  *)
(* prepared statements of server/database.ts they run                      *)
(***************************************************************************)

MaxWrites == 2          \* requests that write, in one behaviour

\* req.session.userId of the two signed-in users: the requests of A are
\* followed on every route, those of B where they give B an entry
SessionUsers == {"A", "B"}
Followed == {"A"}
Dates == {"d1", "d2"}

\* req.body of a request that carries an entry: its content, its mood, and
\* whether tagIds is an array (of the ids of the tags there are) or absent
Bodies ==
    {[content |-> <<>>, mood |-> "", tagged |-> FALSE],
     [content |-> <<"a">>, mood |-> "happy", tagged |-> TRUE]}

\* the passwords an export is asked with: none, or one
ExportPasswords == {"", "pw1"}
\* the passwords an import is tried with
ImportPasswords == {"", "pw1", "pw2"}

\* what randomBytes(16) returns to the routes: they are followed with one of
\* its values, RestSpec and ExportSpec follow the codecs with each
RequestIvs == { iv \in randomBytes16 : \A o \in randomBytes16 : iv[1] <= o[1] }

\* randomUUID(): the k-th id drawn by the request being served
NewId(k) == 10 * clock + k
\* new Date().toISOString()
Now == clock

\* mood && mood.trim() ? mood.trim() : null
moodValue(mood) == IF mood = "" THEN Null ELSE mood

\* the number of ? in each prepared statement of entryQueries, tagQueries and
\* templateQueries that takes values
Placeholders ==
    [create |-> 7, update |-> 5, updateById |-> 4,
     createTag |-> 5, createTemplate |-> 6, updateTemplate |-> 5]

\* statement.run(..values): better-sqlite3 throws a RangeError when the
\* values are not as many as the placeholders
Binds(statement, values) == values = Placeholders[statement]

Row(id, user, date, content, mood, created, updated) ==
    [id |-> id, user_id |-> user, date |-> date, content |-> content,
     mood |-> mood, created_at |-> created, updated_at |-> updated]

EntryIdsOf(rows) == { e.id : e \in rows }
\* entryQueries.findByUserId
findByUserId(user) == { e \in entries : e.user_id = user }
\* entryQueries.findAllByUserIdAndDate; findByUserIdAndDate returns one of
\* these, the statement having LIMIT 1 and no ORDER BY
findAllByUserIdAndDate(tbl, user, date) ==
    { e \in tbl : e.user_id = user /\ e.date = date }
\* entryQueries.findById
findById(tbl, id) == { e \in tbl : e.id = id }

\* entryQueries.update: UPDATE diary_entries SET content = ?, mood = ?,
\* updated_at = ? WHERE user_id = ? AND date = ?
update_run(tbl, content, mood, updated, user, date) ==
    { IF e.user_id = user /\ e.date = date
      THEN [e EXCEPT !.content = content, !.mood = mood, !.updated_at = updated]
      ELSE e : e \in tbl }

\* entryQueries.updateById: .. WHERE id = ?
updateById_run(tbl, content, mood, updated, id) ==
    { IF e.id = id
      THEN [e EXCEPT !.content = content, !.mood = mood, !.updated_at = updated]
      ELSE e : e \in tbl }

\* tagQueries.deleteAllEntryTags
deleteAllEntryTags(et, entryId) == { x \in et : x.entry_id # entryId }

\* for (const tagId of tagIds): tagQueries.createEntryTag (INSERT OR IGNORE)
\* for the tags that are the user's own
createEntryTags(et, tgs, user, entryId, tagIds) ==
    et \cup { [entry_id |-> entryId, tag_id |-> t] :
              t \in { i \in tagIds : \E g \in tgs : g.id = i /\ g.user_id = user } }

\* tagQueries.findByEntryId
findTagsByEntryId(et, tgs, entryId) ==
    { g \in tgs : [entry_id |-> entryId, tag_id |-> g.id] \in et }

AllTagIds == { g.id : g \in tags }

Answered(route, user, status, ids) ==
    [NoResp EXCEPT !.route = route, !.user = user, !.status = status, !.ids = ids]

RouteFrame == UNCHANGED <<schemaVars, sessionVars, codecVars, boot, cb>>

\* router.get('/') and router.get('/search'): the user's entries (the search
\* narrows them by text, dates and tags)
GetEntries(u) ==
    /\ resp' = Answered("GET /", u, 200, EntryIdsOf(findByUserId(u)))
    /\ UNCHANGED <<entries, entryTags, tags, templates, clock>>
    /\ file' = NoFile
    /\ RouteFrame

\* router.get('/:date'): one entry of that date, or 404
GetByDate(u, date) ==
    /\ LET found == findAllByUserIdAndDate(entries, u, date)
       IN  IF found = {} THEN resp' = Answered("GET /:date", u, 404, {})
           ELSE \E e \in found : resp' = Answered("GET /:date", u, 200, {e.id})
    /\ UNCHANGED <<entries, entryTags, tags, templates, clock>>
    /\ file' = NoFile
    /\ RouteFrame

\* router.get('/date/:date'): all entries of that date
GetAllByDate(u, date) ==
    /\ resp' = Answered("GET /date/:date", u, 200,
                        EntryIdsOf(findAllByUserIdAndDate(entries, u, date)))
    /\ UNCHANGED <<entries, entryTags, tags, templates, clock>>
    /\ file' = NoFile
    /\ RouteFrame

\* router.get('/id/:id')
GetById(u, id) ==
    /\ LET found == findById(entries, id)
       IN  IF found = {} THEN resp' = Answered("GET /id/:id", u, 404, {})
           ELSE IF \E e \in found : e.user_id # u
           THEN resp' = Answered("GET /id/:id", u, 403, {})
           ELSE resp' = Answered("GET /id/:id", u, 200, {id})
    /\ UNCHANGED <<entries, entryTags, tags, templates, clock>>
    /\ file' = NoFile
    /\ RouteFrame

\* router.post('/') of routes/tags.ts, the name being 't'
CreateTag(u) ==
    /\ clock < MaxWrites
    /\ IF \E g \in tags : g.user_id = u /\ g.name = "t"
       THEN /\ resp' = Answered("POST /api/tags", u, 409, {})
            /\ UNCHANGED <<tags, clock>>
       ELSE /\ tags' = tags \cup {[id |-> NewId(1), user_id |-> u, name |-> "t"]}
            /\ resp' = Answered("POST /api/tags", u, 201, {})
            /\ clock' = clock + 1
    /\ UNCHANGED <<entries, entryTags, templates>>
    /\ file' = NoFile
    /\ RouteFrame

\* router.post('/') storing the content as it came
CreateEntry_plain(u, date, b) ==
    /\ clock < MaxWrites
    /\ LET entryId == NewId(1)
       IN  /\ entries' = entries \cup
                {Row(entryId, u, date, b.content, moodValue(b.mood), Now, Now)}
           /\ entryTags' = IF b.tagged
                           THEN createEntryTags(entryTags, tags, u, entryId, AllTagIds)
                           ELSE entryTags
           /\ resp' = Answered("POST /", u, 201, {entryId})
    /\ clock' = clock + 1
    /\ UNCHANGED <<tags, templates>>
    /\ file' = NoFile
    /\ RouteFrame
\* router.post('/'): always a new entry
CreateEntry(u, date, b) ==
    /\ clock < MaxWrites
    /\ \E iv \in RequestIvs :
         LET encryptedContent == encrypt(b.content, iv)
             entryId == NewId(1)
         IN  /\ entries' = entries \cup
                  {Row(entryId, u, date, encryptedContent, moodValue(b.mood), Now, Now)}
             /\ entryTags' = IF b.tagged
                             THEN createEntryTags(entryTags, tags, u, entryId, AllTagIds)
                             ELSE entryTags
             /\ resp' = Answered("POST /", u, 201, {entryId})
    /\ clock' = clock + 1
    /\ UNCHANGED <<tags, templates>>
    /\ file' = NoFile
    /\ RouteFrame

\* router.put('/:date'): create, or update what there is for that date
PutByDate(u, date, b) ==
    /\ clock < MaxWrites
    /\ IF b.content = <<>>
       THEN /\ resp' = Answered("PUT /:date", u, 400, {})
            /\ UNCHANGED <<entries, entryTags, clock>>
       ELSE \E iv \in RequestIvs :
              LET encryptedContent == encrypt(b.content, iv)
                  found == findAllByUserIdAndDate(entries, u, date)
                  retag(et, entryId) ==
                      IF b.tagged
                      THEN createEntryTags(deleteAllEntryTags(et, entryId),
                                           tags, u, entryId, AllTagIds)
                      ELSE et
              IN  /\ IF found # {}
                     THEN \E existingRow \in found :
                            /\ entries' = update_run(entries, encryptedContent,
                                              moodValue(b.mood), Now, u, date)
                            /\ entryTags' = retag(entryTags, existingRow.id)
                            /\ resp' = Answered("PUT /:date", u, 200, {existingRow.id})
                     ELSE /\ entries' = entries \cup
                               {Row(NewId(1), u, date, encryptedContent,
                                    moodValue(b.mood), Now, Now)}
                          /\ entryTags' = retag(entryTags, NewId(1))
                          /\ resp' = Answered("PUT /:date", u, 201, {NewId(1)})
                  /\ clock' = clock + 1
    /\ UNCHANGED <<tags, templates>>
    /\ file' = NoFile
    /\ RouteFrame

\* router.put('/id/:id') without the comparison of user_id
PutById_anyone(u, id, b) ==
    /\ clock < MaxWrites
    /\ IF findById(entries, id) = {}
       THEN /\ resp' = Answered("PUT /id/:id", u, 404, {})
            /\ UNCHANGED <<entries, entryTags, clock>>
       ELSE \E iv \in RequestIvs :
              /\ entries' = updateById_run(entries, encrypt(b.content, iv),
                                           moodValue(b.mood), Now, id)
              /\ entryTags' =
                   IF b.tagged
                   THEN createEntryTags(deleteAllEntryTags(entryTags, id),
                                        tags, u, id, AllTagIds)
                   ELSE deleteAllEntryTags(entryTags, id)
              /\ resp' = Answered("PUT /id/:id", u, 200, {id})
              /\ clock' = clock + 1
    /\ UNCHANGED <<tags, templates>>
    /\ file' = NoFile
    /\ RouteFrame
\* router.put('/id/:id')
PutById(u, id, b) ==
    /\ clock < MaxWrites
    /\ IF findById(entries, id) = {}
       THEN /\ resp' = Answered("PUT /id/:id", u, 404, {})
            /\ UNCHANGED <<entries, entryTags, clock>>
       ELSE IF \E e \in findById(entries, id) : e.user_id # u
       THEN /\ resp' = Answered("PUT /id/:id", u, 403, {})
            /\ UNCHANGED <<entries, entryTags, clock>>
       ELSE \E iv \in RequestIvs :
              /\ entries' = updateById_run(entries, encrypt(b.content, iv),
                                           moodValue(b.mood), Now, id)
              /\ entryTags' =
                   IF b.tagged
                   THEN createEntryTags(deleteAllEntryTags(entryTags, id),
                                        tags, u, id, AllTagIds)
                   ELSE deleteAllEntryTags(entryTags, id)
              /\ resp' = Answered("PUT /id/:id", u, 200, {id})
              /\ clock' = clock + 1
    /\ UNCHANGED <<tags, templates>>
    /\ file' = NoFile
    /\ RouteFrame

\* router.delete('/:id'); entry_tags goes with the entry (ON DELETE CASCADE)
DeleteEntry(u, id) ==
    /\ clock < MaxWrites
    /\ IF findById(entries, id) = {}
       THEN /\ resp' = Answered("DELETE /:id", u, 404, {})
            /\ UNCHANGED <<entries, entryTags, clock>>
       ELSE IF \E e \in findById(entries, id) : e.user_id # u
       THEN /\ resp' = Answered("DELETE /:id", u, 403, {})
            /\ UNCHANGED <<entries, entryTags, clock>>
       ELSE /\ entries' = entries \ findById(entries, id)
            /\ entryTags' = deleteAllEntryTags(entryTags, id)
            /\ resp' = Answered("DELETE /:id", u, 200, {})
            /\ clock' = clock + 1
    /\ UNCHANGED <<tags, templates>>
    /\ file' = NoFile
    /\ RouteFrame


\* md.render(content) of a line of text: a paragraph
md_render(text) ==
    IF text = <<>> THEN <<>>
    ELSE <<"<", "p", ">">> \o text \o <<"<", "/", "p", ">", "\n">>

\* turndownService.turndown(html) of paragraphs of text: the text without
\* the tags and the line ends
RECURSIVE stripTags(_, _)
stripTags(html, inTag) ==
    IF html = <<>> THEN <<>>
    ELSE IF Head(html) = "<" THEN stripTags(Tail(html), TRUE)
    ELSE IF Head(html) = ">" /\ inTag THEN stripTags(Tail(html), FALSE)
    ELSE IF inTag \/ Head(html) = "\n" THEN stripTags(Tail(html), inTag)
    ELSE <<Head(html)>> \o stripTags(Tail(html), inTag)
htmlToMarkdown(html) == stripTags(html, FALSE)

\* a file as it leaves an export or reaches an import: text is what
\* isCSVEncrypted, decryptCSV and their JSON twins see, the envelope being
\* built over the first character of the document; rows, tags and templates
\* are what the document says, a CSV line being named after its entry and
\* an entry without an id having id 0
Document == <<"a">>
EnvelopePrefix == ENCRYPTED \o <<":">> \o aes_256_gcm \o <<":">>

FileRow(line, id, date, content, mood, tgs, created, updated) ==
    [line |-> line, id |-> id, date |-> date, content |-> content,
     mood |-> mood, tags |-> tgs, createdAt |-> created, updatedAt |-> updated]

\* what the user may send instead of an exported file: an envelope cut
\* after its second token, and a file written by hand
ForgedCSV ==
    {[NoFile EXCEPT !.format = "csv", !.text = EnvelopePrefix],
     [NoFile EXCEPT !.format = "csv", !.text = Document,
                    !.rows = {FileRow(1, 0, "d1", <<"a">>, Null, {}, 0, 0)}]}
ForgedJSON ==
    {[NoFile EXCEPT !.format = "json", !.text = EnvelopePrefix],
     [NoFile EXCEPT !.format = "json", !.text = Document,
                    !.tags = {[id |-> 1, name |-> "t"]},
                    !.templates = {[name |-> "T", content |-> <<"a">>]},
                    !.rows = {FileRow(1, 0, "d1", <<"a">>, Null,
                                      {[id |-> 1, name |-> "t"]}, 0, 0),
                              FileRow(2, 0, "d1", <<":">>, "happy", {}, 0, 0)}]}
    \cup { [NoFile EXCEPT !.format = "json", !.text = Document,
                          !.rows = {FileRow(1, i, "d1", <<"a">>, Null, {}, 0, 0)}]
           : i \in EntryIdsOf(entries) }

Exported(format) == IF file.format = format THEN {file} ELSE {}

\* router.post('/export/csv')
ExportCSV(u, password) ==
    /\ \E salt \in RequestIvs, iv \in RequestIvs :
         file' = [format |-> "csv", owner |-> u, password |-> password,
                  text |-> IF password # ""
                           THEN encryptCSV(Document, password, salt, iv)
                           ELSE Document,
                  rows |-> { FileRow(e.id, 0, e.date,
                                     htmlToMarkdown(safeDecrypt(e.content).value),
                                     Null, {}, e.created_at, e.updated_at)
                             : e \in findByUserId(u) },
                  tags |-> {}, templates |-> {}]
    /\ resp' = Answered("POST /export/csv", u, 200, EntryIdsOf(findByUserId(u)))
    /\ UNCHANGED <<entries, entryTags, tags, templates, clock>>
    /\ RouteFrame

\* router.post('/export/json')
ExportJSON(u, password) ==
    /\ \E salt \in RequestIvs, iv \in RequestIvs :
         file' = [format |-> "json", owner |-> u, password |-> password,
                  text |-> IF password # ""
                           THEN encryptJSON(Document, password, salt, iv)
                           ELSE Document,
                  rows |-> { FileRow(e.id, e.id, e.date,
                                     safeDecrypt(e.content).value, e.mood,
                                     { [id |-> g.id, name |-> g.name] :
                                       g \in findTagsByEntryId(entryTags, tags, e.id) },
                                     e.created_at, e.updated_at)
                             : e \in findByUserId(u) },
                  tags |-> { [id |-> g.id, name |-> g.name] :
                             g \in { x \in tags : x.user_id = u } },
                  templates |-> { [name |-> t.name, content |-> t.content] :
                                  t \in { x \in templates : x.user_id = u } }]
    /\ resp' = Answered("POST /export/json", u, 200, EntryIdsOf(findByUserId(u)))
    /\ UNCHANGED <<entries, entryTags, tags, templates, clock>>
    /\ RouteFrame

\* the number of values the CSV import hands to entryQueries.update and to
\* entryQueries.create
CsvUpdateValues == 4
CsvCreateValues == 6

Importing(tbl, et) == [entries |-> tbl, entryTags |-> et, count |-> 0, skipped |-> 0]
Skipped(st) == [st EXCEPT !.skipped = @ + 1]

\* one turn of the loop over the rows of a CSV file, with its catch
importCSVRow(st, u, row, iv) ==
    IF row.date = "" \/ row.content = <<>> THEN Skipped(st)
    ELSE LET htmlContent == md_render(row.content)
             encryptedContent == encrypt(htmlContent, iv)
             existingEntry == findAllByUserIdAndDate(st.entries, u, row.date)
         IN  IF existingEntry # {}
             THEN IF Binds("update", CsvUpdateValues)
                  THEN [st EXCEPT !.entries = update_run(@, encryptedContent, Null,
                                                         row.updatedAt, u, row.date),
                                  !.count = @ + 1]
                  ELSE Skipped(st)
             ELSE IF Binds("create", CsvCreateValues)
                  THEN [st EXCEPT !.entries = @ \cup
                                     {Row(NewId(row.line), u, row.date, encryptedContent,
                                          Null, row.createdAt, row.updatedAt)},
                                  !.count = @ + 1]
                  ELSE Skipped(st)

RECURSIVE importCSVRows(_, _, _, _)
importCSVRows(st, u, rows, ivs) ==
    IF rows = {} THEN st
    ELSE LET row == CHOOSE r \in rows : \A o \in rows : r.line <= o.line
         IN  importCSVRows(importCSVRow(st, u, row, ivs[row.line]), u,
                           rows \ {row}, ivs)

Lines(f) == { r.line : r \in f.rows }

Imported(route, u, f, password, status, count, skipped) ==
    [NoResp EXCEPT !.route = route, !.user = u, !.status = status,
                   !.count = count, !.skipped = skipped,
                   !.text = f.text, !.password = password]

\* router.post('/import/csv')
ImportCSV(u, f, password) ==
    /\ clock < MaxWrites
    /\ IF isCSVEncrypted(f.text) /\ password = ""
       THEN /\ resp' = Imported("POST /import/csv", u, f, password, 400, 0, 0)
            /\ UNCHANGED <<entries, clock>>
       ELSE IF isCSVEncrypted(f.text) /\ ~decryptCSV(f.text, password).ok
       THEN /\ resp' = Imported("POST /import/csv", u, f, password, 401, 0, 0)
            /\ UNCHANGED <<entries, clock>>
       ELSE IF f.rows = {}
       THEN /\ resp' = Imported("POST /import/csv", u, f, password, 400, 0, 0)
            /\ UNCHANGED <<entries, clock>>
       ELSE \E ivs \in [Lines(f) -> RequestIvs] :
              LET st == importCSVRows(Importing(entries, entryTags), u, f.rows, ivs)
              IN  /\ entries' = st.entries
                  /\ resp' = Imported("POST /import/csv", u, f, password, 200,
                                      st.count, st.skipped)
                  /\ clock' = clock + 1
    /\ UNCHANGED <<entryTags, tags, templates>>
    /\ file' = NoFile
    /\ RouteFrame

\* the tags of the table after the loop over the tags of a JSON file: one
\* more for each name the user has no tag of
importTags(u, f) ==
    tags \cup { [id |-> NewId(2), user_id |-> u, name |-> n] :
                n \in { g.name : g \in f.tags } \
                      { x.name : x \in { y \in tags : y.user_id = u } } }

\* tagIdMap: the user's tag that has the name of the file's tag
tagIdMap(tgs, u, f, old) ==
    { x.id : x \in { y \in tgs : /\ y.user_id = u
                                 /\ \E g \in f.tags : g.id = old /\ g.name = y.name } }

\* the templates of the table after the loop over the templates of a JSON
\* file: created, or updated where the user has one of that name
importTemplates(u, f) ==
    { IF t.user_id = u /\ \E d \in f.templates : d.name = t.name
      THEN [t EXCEPT !.content = (CHOOSE d \in f.templates : d.name = t.name).content]
      ELSE t : t \in templates }
    \cup { [id |-> NewId(3), user_id |-> u, name |-> d.name, content |-> d.content] :
           d \in { x \in f.templates :
                   ~\E t \in templates : t.user_id = u /\ t.name = x.name } }

\* one turn of the loop over the entries of a JSON file, with its catch
importJSONEntry(st, tgs, u, f, entryData, iv) ==
    IF entryData.date = "" \/ entryData.content = <<>> THEN Skipped(st)
    ELSE LET encryptedContent == encrypt(entryData.content, iv)
             newTagIds == UNION { tagIdMap(tgs, u, f, oldTag.id) : oldTag \in entryData.tags }
             foundEntry == IF entryData.id = 0 THEN {}
                           ELSE findById(st.entries, entryData.id)
             existingEntry == { e \in foundEntry : e.user_id = u }
             entryId == IF entryData.id # 0 THEN entryData.id
                        ELSE NewId(entryData.line)
         IN  IF existingEntry # {}
             THEN [st EXCEPT
                     !.entries = updateById_run(@, encryptedContent, entryData.mood,
                                                entryData.updatedAt, entryData.id),
                     !.entryTags = createEntryTags(
                                       deleteAllEntryTags(@, entryData.id),
                                       tgs, u, entryData.id, newTagIds)]
             ELSE IF ~Binds("create", 7) \/ findById(st.entries, entryId) # {}
             THEN Skipped(st)
             ELSE [st EXCEPT
                     !.entries = @ \cup
                        {Row(entryId, u, entryData.date, encryptedContent,
                             entryData.mood, entryData.createdAt, entryData.updatedAt)},
                     !.entryTags = createEntryTags(@, tgs, u, entryId, newTagIds),
                     !.count = @ + 1]

RECURSIVE importJSONEntries(_, _, _, _, _, _)
importJSONEntries(st, tgs, u, f, rows, ivs) ==
    IF rows = {} THEN st
    ELSE LET row == CHOOSE r \in rows : \A o \in rows : r.line <= o.line
         IN  importJSONEntries(importJSONEntry(st, tgs, u, f, row, ivs[row.line]),
                               tgs, u, f, rows \ {row}, ivs)

\* router.post('/import/json') taking a file it cannot open for a plain one
ImportJSON_ungated(u, f, password) ==
    /\ clock < MaxWrites
    /\ IF isJSONEncrypted(f.text) /\ password = ""
       THEN /\ resp' = Imported("POST /import/json", u, f, password, 400, 0, 0)
            /\ UNCHANGED <<entries, entryTags, tags, templates, clock>>
       ELSE \E ivs \in [Lines(f) -> RequestIvs] :
              LET tgs == importTags(u, f)
                  st == importJSONEntries(Importing(entries, entryTags), tgs, u,
                                          f, f.rows, ivs)
              IN  /\ tags' = tgs
                  /\ templates' = importTemplates(u, f)
                  /\ entries' = st.entries
                  /\ entryTags' = st.entryTags
                  /\ resp' = Imported("POST /import/json", u, f, password, 200,
                                      st.count, st.skipped)
                  /\ clock' = clock + 1
    /\ file' = NoFile
    /\ RouteFrame
\* router.post('/import/json')
ImportJSON(u, f, password) ==
    /\ clock < MaxWrites
    /\ IF isJSONEncrypted(f.text) /\ password = ""
       THEN /\ resp' = Imported("POST /import/json", u, f, password, 400, 0, 0)
            /\ UNCHANGED <<entries, entryTags, tags, templates, clock>>
       ELSE IF isJSONEncrypted(f.text) /\ ~decryptJSON(f.text, password).ok
       THEN /\ resp' = Imported("POST /import/json", u, f, password, 401, 0, 0)
            /\ UNCHANGED <<entries, entryTags, tags, templates, clock>>
       ELSE \E ivs \in [Lines(f) -> RequestIvs] :
              LET tgs == importTags(u, f)
                  st == importJSONEntries(Importing(entries, entryTags), tgs, u,
                                          f, f.rows, ivs)
              IN  /\ tags' = tgs
                  /\ templates' = importTemplates(u, f)
                  /\ entries' = st.entries
                  /\ entryTags' = st.entryTags
                  /\ resp' = Imported("POST /import/json", u, f, password, 200,
                                      st.count, st.skipped)
                  /\ clock' = clock + 1
    /\ file' = NoFile
    /\ RouteFrame

RouteNext ==
    \/ \E u \in Followed : GetEntries(u)
    \/ \E u \in Followed, date \in Dates : GetByDate(u, date)
    \/ \E u \in Followed, date \in Dates : GetAllByDate(u, date)
    \/ \E u \in Followed, id \in EntryIdsOf(entries) \cup {0} : GetById(u, id)
    \/ \E u \in Followed : CreateTag(u)
    \/ \E u \in SessionUsers, date \in Dates, b \in Bodies :
          (u \in Followed \/ (date = "d1" /\ b.tagged)) /\ CreateEntry(u, date, b)
    \/ \E u \in Followed, date \in Dates, b \in Bodies : PutByDate(u, date, b)
    \/ \E u \in Followed, id \in EntryIdsOf(entries) \cup {0}, b \in Bodies :
          PutById(u, id, b)
    \/ \E u \in Followed, id \in EntryIdsOf(entries) \cup {0} : DeleteEntry(u, id)
    \/ \E u \in Followed, password \in ExportPasswords : ExportCSV(u, password)
    \/ \E u \in Followed, password \in ExportPasswords : ExportJSON(u, password)
    \/ \E u \in Followed, f \in Exported("csv") \cup ForgedCSV,
          password \in ImportPasswords : ImportCSV(u, f, password)
    \/ \E u \in Followed, f \in Exported("json") \cup ForgedJSON,
          password \in ImportPasswords : ImportJSON(u, f, password)

RouteInit ==
    /\ db = InitialisedStore
    /\ committed = db
    /\ inTx = FALSE
    /\ pc = "returned"
    /\ run = MaxRuns
    /\ before = db
    /\ outcome = [r \in 1..MaxRuns |-> Finished("committed")]
    /\ SessionIdle
    /\ CodecIdle
    /\ AppIdle

RouteSpec == RouteInit /\ [][RouteNext]_vars

(***************************************************************************)
(* Calls of the codecs on one stored value                                 *)
(***************************************************************************)

Plaintexts == TextsOver(PlainChars, MaxLen)

\* text that was stored before content was encrypted, token by token
LegacyTokens == {<<>>, <<"0", "f">>, <<"A">>, <<"g">>}
LegacyTexts ==
    { join(p) : p \in UNION { [1..k -> LegacyTokens] : k \in {1, 3} } }
      \cup { join(<<t, t, t, t>>) : t \in LegacyTokens }

\* the characters a corrupted byte is seen to become
TamperChars == {"0", "A", "F", "g", "Q"}


\* what a call handed back: r is Returned(..) or Thrown(..)
Outcome(op, password, r) ==
    [op |-> op, password |-> password, ok |-> r.ok, value |-> r.value,
     error |-> r.error, flag |-> FALSE, kdf |-> 0]
Answer(op, b) == [NoRet EXCEPT !.op = op, !.flag = b]

\* the number of the colon-separated token character i lies in
TokenAt(text, i) == 1 + Cardinality({ j \in 1..(i - 1) : text[j] = ":" })

\* a route handler encrypts content for the content column (a value that
\* was corrupted is read, not written over)
Encrypt(text) ==
    /\ sealed.tampered = "no"
    /\ \E iv \in randomBytes16 :
         /\ field' = encrypt(text, iv)
         /\ sealed' = [kind |-> "rest", plain |-> text,
                       password |-> ENCRYPTION_KEY,
                       iv |-> IF text = <<>> THEN <<>> ELSE iv,
                       tampered |-> "no",
                       again |-> /\ sealed.kind = "rest"
                                 /\ sealed.password = ENCRYPTION_KEY
                                 /\ sealed.plain = text
                                 /\ sealed.iv # iv]
    /\ ret' = [Outcome("encrypt", "", Returned(field'))
                 EXCEPT !.kdf = getDerivedKey_calls(text)]
    /\ UNCHANGED <<env, schemaVars, sessionVars, appVars>>

\* decrypt on the stored value
Decrypt ==
    /\ ret' = [Outcome("decrypt", "", decrypt(field))
                 EXCEPT !.kdf = getDerivedKey_calls(field)]
    /\ UNCHANGED <<env, field, sealed, schemaVars, sessionVars, appVars>>

\* isEncrypted on the stored value
IsEncrypted ==
    /\ ret' = Answer("isEncrypted", isEncrypted(field))
    /\ UNCHANGED <<env, field, sealed, schemaVars, sessionVars, appVars>>

\* a route handler reads the content column through safeDecrypt
SafeDecrypt ==
    /\ ret' = [Outcome("safeDecrypt", "", safeDecrypt(field))
                 EXCEPT !.flag = safeDecrypt_calls_decrypt(field),
                        !.kdf = IF safeDecrypt_calls_decrypt(field)
                                THEN getDerivedKey_calls(field) ELSE 0]
    /\ UNCHANGED <<env, field, sealed, schemaVars, sessionVars, appVars>>

\* the column holds text written before content was encrypted
Legacy(text) ==
    /\ sealed.tampered = "no"
    /\ field' = text
    /\ sealed' = [NoSeal EXCEPT !.kind = "legacy", !.plain = text]
    /\ ret' = NoRet
    /\ UNCHANGED <<env, schemaVars, sessionVars, appVars>>

\* the process is started again with another ENCRYPTION_KEY (a value meets
\* one fault, a changed key or a changed byte, not both)
Restart(e) ==
    /\ sealed.tampered = "no"
    /\ e # env
    /\ env' = e
    /\ ret' = NoRet
    /\ UNCHANGED <<field, sealed, schemaVars, sessionVars, appVars>>

\* one character of the tag or of the ciphertext of an envelope is changed
Tamper(i, c) ==
    /\ sealed.kind \in {"rest", "export"}
    /\ sealed.tampered = "no"
    /\ sealed.kind = "rest" => sealed.password = ENCRYPTION_KEY
    /\ i \in DOMAIN field
    /\ field[i] \notin {":", c}
    /\ LET tag == IF sealed.kind = "rest" THEN 2 ELSE 5
           t == TokenAt(field, i)
       IN  /\ t \in {tag, tag + 1}
           /\ sealed' = [sealed EXCEPT !.tampered =
                             IF t = tag THEN "tag" ELSE "ciphertext"]
    /\ field' = [field EXCEPT ![i] = c]
    /\ ret' = NoRet
    /\ UNCHANGED <<env, schemaVars, sessionVars, appVars>>

RestNext ==
    \/ \E text \in Plaintexts : Encrypt(text)
    \/ Decrypt
    \/ IsEncrypted
    \/ SafeDecrypt
    \/ \E text \in LegacyTexts : Legacy(text)
    \/ \E e \in EnvValues : Restart(e)
    \/ \E i \in 1..(70 + 2 * 3 * MaxLen), c \in TamperChars : Tamper(i, c)

\* the export handler encrypts the CSV document with the user's password
EncryptCSV(csvContent, password) ==
    /\ sealed.tampered = "no"
    /\ \E salt \in randomBytes16, iv \in randomBytes16 :
         /\ field' = encryptCSV(csvContent, password, salt, iv)
         /\ sealed' = [kind |-> "export", plain |-> csvContent,
                       password |-> password, iv |-> iv, tampered |-> "no",
                       again |-> FALSE]
    /\ ret' = Outcome("encryptCSV", password, Returned(field'))
    /\ UNCHANGED <<env, schemaVars, sessionVars, appVars>>

\* the export handler encrypts the JSON document with the user's password
EncryptJSON(jsonContent, password) ==
    /\ sealed.tampered = "no"
    /\ \E salt \in randomBytes16, iv \in randomBytes16 :
         /\ field' = encryptJSON(jsonContent, password, salt, iv)
         /\ sealed' = [kind |-> "export", plain |-> jsonContent,
                       password |-> password, iv |-> iv, tampered |-> "no",
                       again |-> FALSE]
    /\ ret' = Outcome("encryptJSON", password, Returned(field'))
    /\ UNCHANGED <<env, schemaVars, sessionVars, appVars>>

\* the import handler decrypts the uploaded file with the password given
DecryptCSV(password) ==
    /\ ret' = Outcome("decryptCSV", password, decryptCSV(field, password))
    /\ UNCHANGED <<env, field, sealed, schemaVars, sessionVars, appVars>>

DecryptJSON(password) ==
    /\ ret' = Outcome("decryptJSON", password, decryptJSON(field, password))
    /\ UNCHANGED <<env, field, sealed, schemaVars, sessionVars, appVars>>

IsCSVEncrypted ==
    /\ ret' = Answer("isCSVEncrypted", isCSVEncrypted(field))
    /\ UNCHANGED <<env, field, sealed, schemaVars, sessionVars, appVars>>

IsJSONEncrypted ==
    /\ ret' = Answer("isJSONEncrypted", isJSONEncrypted(field))
    /\ UNCHANGED <<env, field, sealed, schemaVars, sessionVars, appVars>>

\* a file that was exported without a password is uploaded
Upload(text) ==
    /\ sealed.tampered = "no"
    /\ field' = text
    /\ sealed' = [NoSeal EXCEPT !.kind = "upload", !.plain = text]
    /\ ret' = NoRet
    /\ UNCHANGED <<env, schemaVars, sessionVars, appVars>>

\* the literal tokens or the token count of an envelope are changed
Malform(how) ==
    /\ sealed.kind = "export"
    /\ sealed.tampered = "no"
    /\ LET parts == split(field)
       IN  field' =
             IF how = "tag" THEN join([parts EXCEPT ![1] = <<"e">> \o Tail(@)])
             ELSE IF how = "algorithm"
             THEN join([parts EXCEPT ![2] = SubSeq(@, 1, 4) \o <<"1", "2", "8">>
                                              \o SubSeq(@, 8, 11)])
             ELSE IF how = "fewer" THEN join(SubSeq(parts, 1, 5))
             ELSE join(parts \o <<<<>>>>)
    /\ sealed' = [sealed EXCEPT !.tampered = "format"]
    /\ ret' = NoRet
    /\ UNCHANGED <<env, schemaVars, sessionVars, appVars>>

\* in an export envelope: the first and the last character of the tag before
\* its padding, and the first character of the ciphertext
ExportTamperAt == {73, 94, 98}

ExportNext ==
    \/ \E text \in Plaintexts, password \in Passwords : EncryptCSV(text, password)
    \/ \E text \in Plaintexts, password \in Passwords : EncryptJSON(text, password)
    \/ \E password \in Passwords : DecryptCSV(password)
    \/ \E password \in Passwords : DecryptJSON(password)
    \/ IsCSVEncrypted
    \/ IsJSONEncrypted
    \/ \E text \in Plaintexts : Upload(text)
    \/ \E how \in {"tag", "algorithm", "fewer", "more"} : Malform(how)
    \/ \E i \in ExportTamperAt, c \in TamperChars : Tamper(i, c)

\* both codecs start on a store that startup has brought up
CodecInit ==
    /\ db = InitialisedStore
    /\ committed = db
    /\ inTx = FALSE
    /\ pc = "returned"
    /\ run = MaxRuns
    /\ before = db
    /\ outcome = [r \in 1..MaxRuns |-> Finished("committed")]
    /\ SessionIdle
    /\ CodecIdle
    /\ AppIdle

RestSpec == CodecInit /\ [][RestNext]_vars
ExportSpec == CodecInit /\ [][ExportNext]_vars

(***************************************************************************)
(* Properties of the constraint-removal migration                          *)
(***************************************************************************)

\* positions from the first statement of the rebuild to the end of its catch blocks
RebuildPcs == {"cleanup", "begin", "create_shadow", "copy", "drop", "rename",
               "commit", "inner_catch", "outer_catch"}
\* positions after the migration block
AfterMigration == {"sessions", "tags", "entry_tags", "reminders", "templates",
                   "returned"}

\* a timestamp is kept unless it was NULL or empty, and then it is the current time
KeptOrDefaulted(old, new) ==
    IF old = Null \/ old = "" THEN new = NowIso ELSE new = old

\* every row of old is in new under its id, with its fields and timestamps
RowsCarriedOver(old, new) ==
    /\ EntryIdsOf(new) = EntryIdsOf(old)
    /\ Cardinality(new) = Cardinality(old)
    /\ \A r \in old : \E q \in new :
         /\ q.id = r.id /\ q.user_id = r.user_id /\ q.date = r.date
         /\ q.content = r.content /\ q.mood = r.mood
         /\ KeptOrDefaulted(r.created_at, q.created_at)
         /\ KeptOrDefaulted(r.updated_at, q.updated_at)

\* C1: when a statement of the rebuild fails (create shadow, the row copy at
\* any row, drop original, rename, commit), then once initializeDatabase has
\* returned diary_entries exists under its name with exactly the rows it held
\* before the attempt, for this connection and for every other, and no
\* diary_entries_new is left.
C1_MigrationAtomicity ==
    (pc = "returned" /\ outcome[run].status = "failed") =>
        /\ db.diary_entries = before.diary_entries
        /\ committed.diary_entries = before.diary_entries
        /\ ~db.diary_entries_new.exists
        /\ ~committed.diary_entries_new.exists

\* the row copy was interrupted after one of two rows, and startup has returned
C1_Witness ==
    /\ pc = "returned"
    /\ outcome[run].status = "failed"
    /\ outcome[run].step = "copy"
    /\ outcome[run].copied = 1
    /\ Cardinality(before.diary_entries.rows) = 2
    /\ db.diary_entries.rows = before.diary_entries.rows

\* C2: with foreign keys enabled, every entry_tags row that referenced a
\* diary_entries row before the migration is still there, with the same entry
\* id, after a migration that committed.
C2_ForeignKeysPreserved ==
    (pc \in AfterMigration /\ outcome[run].status = "committed") =>
        before.entry_tags.rows \subseteq db.entry_tags.rows

\* C3: a migration that committed keeps every row and primary key of
\* diary_entries: the same ids, each row with its user_id, date, content and
\* mood, created_at / updated_at kept unless NULL or empty and then replaced
\* by the current timestamp.
C3_RowsPreserved ==
    (pc \in AfterMigration /\ outcome[run].status = "committed") =>
        /\ db.diary_entries.exists
        /\ RowsCarriedOver(before.diary_entries.rows, db.diary_entries.rows)
        /\ committed.diary_entries = db.diary_entries

\* a committed migration of a table with an empty and a set timestamp
C3_Witness ==
    /\ pc \in AfterMigration
    /\ outcome[run].status = "committed"
    /\ \E r \in before.diary_entries.rows : r.created_at = "" /\ r.updated_at = "t1"
    /\ \E r \in before.diary_entries.rows : r.updated_at = "" /\ r.mood = "happy"

\* C4: when initializeDatabase runs twice in succession on one store and the
\* first run left the migration done (or found nothing to do), the second run
\* performs no shadow-table rebuild.
C4_SecondRunNoOp ==
    (run >= 2 /\ outcome[1].status \in {"committed", "noop"}) =>
        pc \notin RebuildPcs

\* C5: the rebuild is entered only for a diary_entries table whose schema
\* holds a uniqueness constraint on (user_id, date).
C5_RebuildOnlyWhenUnique ==
    pc \in RebuildPcs => before.diary_entries.unique

\* C6: whichever statement of the migration fails, nothing escapes
\* initializeDatabase: it never ends in an uncaught error, after a failure it
\* is in a catch block or past the migration, and when it has returned the
\* sessions, tags, entry_tags, reminders and templates tables exist and no
\* transaction is left open.
C6_FailureNotFatal ==
    /\ pc # "crashed"
    /\ (run >= 1 /\ outcome[run].status = "failed") =>
           pc \in {"inner_catch", "outer_catch"} \cup AfterMigration
    /\ pc = "returned" =>
           /\ OtherTables \subseteq db.tables
           /\ db.entry_tags.exists
           /\ db.diary_entries.exists
           /\ ~inTx
           /\ committed = db

\* startup has returned after a failure on which the store had already rolled
\* the transaction back, so that ROLLBACK itself threw
C6_Witness ==
    /\ pc = "returned"
    /\ outcome[run].status = "failed"
    /\ outcome[run].how = "abort"
    /\ outcome[run].step \in {"drop", "rename", "commit"}
    /\ {"sessions", "templates"} \subseteq db.tables

\* C7: another connection, reading at any point from the rebuild's first
\* statement on, finds diary_entries either as it was before the migration or
\* complete in its migrated form, the latter only once the migration has
\* committed; diary_entries_new is never committed, and a leftover one is
\* gone after the first statement.
C7_ObserverSeesPreOrPost ==
    pc \in RebuildPcs \cup AfterMigration =>
        /\ committed.diary_entries.exists
        /\ IF outcome[run].status = "committed"
           THEN /\ ~committed.diary_entries.unique
                /\ RowsCarriedOver(before.diary_entries.rows,
                                   committed.diary_entries.rows)
           ELSE committed.diary_entries = before.diary_entries
        /\ committed.diary_entries_new.exists => pc = "cleanup"

\* inside the transaction the original is dropped and the shadow not yet
\* renamed; the observer still reads the original with its rows
C7_Witness ==
    /\ pc = "rename"
    /\ inTx
    /\ ~db.diary_entries.exists
    /\ Cardinality(db.diary_entries_new.rows) = 2
    /\ committed.diary_entries.rows # {}
    /\ ~committed.diary_entries_new.exists

(***************************************************************************)
(* Properties of the session adapter                                       *)
(***************************************************************************)

\* the row of sid is there and has not expired at time t
Live(tbl, sid, t) == sid \in DOMAIN tbl /\ t <= tbl[sid].expire

\* C8: get(id) hands its callback the stored payload exactly when a row with
\* that id exists and its expire is at or after the time of the call; for an
\* expired row that is still there and for an absent id it hands over null,
\* and in neither case an error.
C8_GetIffUnexpired ==
    lastOp.op = "get" =>
        /\ result.err = "none"
        /\ result.found <=> Live(sessions, lastOp.sid, now)
        /\ result.found => result.session = sessions[lastOp.sid].sess.json
        /\ ~result.found => result.session = NoSession

\* get on a row that is still in the table, one millisecond past its expiry
C8_Witness ==
    /\ lastOp.op = "get"
    /\ lastOp.sid \in DOMAIN sessions
    /\ sessions[lastOp.sid].expire + 1 = now
    /\ ~result.found

\* the row of sid is there and its expire has passed
Expired(tbl, sid, t) == sid \in DOMAIN tbl /\ tbl[sid].expire < t

\* C9: once now has passed a row's expire, get(id) hands over null from then
\* on unless a set(id) writes the session anew: across every step that is
\* not a set of that id, an expired row stays one that get does not return.
C9_ExpiredStaysUnreachable ==
    [][ \A sid \in Sids :
          (Expired(sessions, sid, now) /\ lastOp' # [op |-> "set", sid |-> sid]) =>
              sessionQueries_get(sessions', sid, now') = {}
      ]_vars

\* the values set and touch may be handed
Payloads == { SessionData(u, m) : u \in UserIds, m \in MaxAges }

\* C10: after set(id, payload, ttl) the row of id holds the serialized new
\* payload and expire = now + ttl, for every ttl the caller supplies (0
\* included), and the rows of the other ids are as before.
C10_SetUpserts ==
    [][ \A sid \in Sids, x \in Payloads :
          (SQLiteStore_set(sid, x) /\ x.cookie.maxAge.t = "number") =>
              /\ sid \in DOMAIN sessions'
              /\ sessions'[sid].sess = JSONstringify(x)
              /\ sessions'[sid].expire = now + x.cookie.maxAge.v
              /\ DOMAIN sessions' = DOMAIN sessions \cup {sid}
              /\ \A s \in DOMAIN sessions \ {sid} : sessions'[s] = sessions[s]
      ]_vars

\* C11: touch(id, session) changes nothing but the expire of the row of id:
\* the row keeps the sess text the last set wrote (the session handed to
\* touch is not stored), every other row is as before, and for an id with no
\* row no row is made.
C11_TouchOnlyMovesExpire ==
    [][ \A sid \in Sids, x \in Payloads :
          SQLiteStore_touch(sid, x) =>
              /\ DOMAIN sessions' = DOMAIN sessions
              /\ \A s \in DOMAIN sessions \ {sid} : sessions'[s] = sessions[s]
              /\ sid \in DOMAIN sessions =>
                     sessions'[sid].sess = sessions[sid].sess
      ]_vars

\* a touch has just moved the expire of a row by the default age while the
\* row still holds the payload set with maxAge 1, and the other id has no row
C11_Witness ==
    /\ lastOp.op = "touch"
    /\ lastOp.sid \in DOMAIN sessions
    /\ sessions[lastOp.sid].sess.json.cookie.maxAge = Num(1)
    /\ sessions[lastOp.sid].expire = now + DefaultMaxAge
    /\ DOMAIN sessions # Sids

\* C12: destroy(id) deletes the row of id and no other, and an id without a
\* row gets one only by set(id), so get(id) hands over null until then;
\* clear() deletes every row, after which length is 0 and get finds nothing
\* for any id.
C12_DestroyAndClear ==
    [][ /\ \A sid \in Sids :
             SQLiteStore_destroy(sid) =>
                 /\ DOMAIN sessions' = DOMAIN sessions \ {sid}
                 /\ \A s \in DOMAIN sessions' : sessions'[s] = sessions[s]
                 /\ sessionQueries_get(sessions', sid, now') = {}
        /\ \A sid \in Sids :
             (sid \notin DOMAIN sessions /\ lastOp' # [op |-> "set", sid |-> sid]) =>
                 /\ sid \notin DOMAIN sessions'
                 /\ sessionQueries_get(sessions', sid, now') = {}
        /\ SQLiteStore_clear =>
             /\ DOMAIN sessions' = {}
             /\ sessionQueries_length(sessions', now') = 0
             /\ \A sid \in Sids : sessionQueries_get(sessions', sid, now') = {}
      ]_vars

\* destroy has just deleted the live row of one id and left the live row of
\* another
C12_Witness ==
    /\ lastOp.op = "destroy"
    /\ lastOp.sid \notin DOMAIN sessions
    /\ \E s \in Sids \ {lastOp.sid} : Live(sessions, s, now)

\* C13: length hands over the number of rows with expire >= now, which is the
\* number of ids for which get at that instant finds a payload; a row that
\* has expired and is still in the table is not counted.
C13_LengthCountsLive ==
    lastOp.op = "length" =>
        /\ result.err = "none"
        /\ result.count = Cardinality({ sid \in Sids : Live(sessions, sid, now) })
        /\ result.count =
             Cardinality({ sid \in Sids : sessionQueries_get(sessions, sid, now) # {} })

\* length has answered 1 for a table of one live and one expired row
C13_Witness ==
    /\ lastOp.op = "length"
    /\ result.count = 1
    /\ \E s \in Sids : Expired(sessions, s, now)
    /\ \E s \in Sids : Live(sessions, s, now)

\* C27: get and length never change the sessions table, and no operation
\* deletes a row because it has expired: a row whose expire has passed stays
\* in the table across every step but a destroy of its id and a clear (a set
\* of its id writes it over, the row stays).
C27_NoEagerSweep ==
    [][ /\ lastOp'.op \in {"get", "length"} => sessions' = sessions
        /\ \A sid \in Sids :
             (Expired(sessions, sid, now) /\ sid \notin DOMAIN sessions') =>
                 \/ lastOp' = [op |-> "destroy", sid |-> sid]
                 \/ lastOp'.op = "clear"
        /\ \A sid \in Sids :
             (Expired(sessions, sid, now) /\ sid \in DOMAIN sessions'
                /\ sessions'[sid] # sessions[sid]) =>
                 lastOp' \in {[op |-> "set", sid |-> sid], [op |-> "touch", sid |-> sid]}
      ]_vars

\* get has found nothing for an id whose expired row is still in the table,
\* next to the row of the other id
C27_Witness ==
    /\ lastOp.op = "get"
    /\ DOMAIN sessions = Sids
    /\ Expired(sessions, lastOp.sid, now)
    /\ ~result.found

(***************************************************************************)
(* Properties of the two codecs                                            *)
(***************************************************************************)

\* no unpaired surrogate in the text
WellFormed(text) == LoneSurrogate \notin Range(text)

\* field is what encrypt returned for sealed.plain, nothing has changed it
\* since, and the process still has the passphrase it was encrypted with
IntactAtRest ==
    /\ sealed.kind = "rest"
    /\ sealed.tampered = "no"
    /\ sealed.password = ENCRYPTION_KEY

\* C14: for every string P, the empty string and strings with colons
\* included, decrypt(encrypt(P)) under the same master passphrase returns P.
C14_RoundTrip ==
    (ret.op = "decrypt" /\ IntactAtRest) =>
        ret.ok /\ ret.value = sealed.plain

\* C14 as it holds: for every string P that has no unpaired UTF-16
\* surrogate, the empty string and strings with colons included,
\* decrypt(encrypt(P)) under the same master passphrase returns P.
C14_RoundTripWellFormed ==
    (ret.op = "decrypt" /\ IntactAtRest /\ WellFormed(sealed.plain)) =>
        ret.ok /\ ret.value = sealed.plain

\* decrypt has returned the colon that was encrypted
C14_Witness ==
    /\ ret.op = "decrypt"
    /\ IntactAtRest
    /\ sealed.plain = <<":">>
    /\ Len(split(field)) = 3
    /\ ret.value = <<":">>

\* field is what encryptCSV / encryptJSON returned for sealed.plain and
\* sealed.password, and nothing has changed it since
IntactExport == sealed.kind = "export" /\ sealed.tampered = "no"

\* the envelope is six colon-separated tokens, ENCRYPTED and aes-256-gcm first
SixTokens(text) ==
    /\ Len(split(text)) = 6
    /\ split(text)[1] = ENCRYPTED
    /\ split(text)[2] = aes_256_gcm

C16_TamperDetected ==
    (ret.op = "decrypt" /\ sealed.kind = "rest"
       /\ sealed.tampered \in {"tag", "ciphertext"}) =>
        /\ ~ret.ok
        /\ ret.ok => ret.value = sealed.plain

C18_SafeDecryptFallsBack ==
    ret.op = "safeDecrypt" =>
        /\ ret.ok
        /\ ~isEncrypted(field) => (ret.value = field /\ ~ret.flag)
        /\ (isEncrypted(field) /\ ~decrypt(field).ok) => ret.value = field

\* safeDecrypt has handed back an envelope that was written under another
\* passphrase
C18_Witness ==
    /\ ret.op = "safeDecrypt"
    /\ sealed.kind = "rest"
    /\ sealed.password # ENCRYPTION_KEY
    /\ isEncrypted(field)
    /\ ret.flag
    /\ ret.value = field

\* hex digits of either case, at least one
isHexToken(part) ==
    part # <<>> /\ \A i \in DOMAIN part : hexValue(part[i]) >= 0

\* C19: isEncrypted(value) is true exactly when value splits on ':' into
\* three tokens each of which is valid hexadecimal; every non-empty output
\* of encrypt satisfies it and the empty string does not.
C19_IsEncryptedIffHex ==
    /\ ret.op = "isEncrypted" =>
         (ret.flag <=> (/\ Len(split(field)) = 3
                        /\ \A i \in 1..3 : isHexToken(split(field)[i])))
    /\ (ret.op = "encrypt" /\ field # <<>>) => isEncrypted(field)
    /\ (ret.op = "isEncrypted" /\ field = <<>>) => ~ret.flag

\* C19 as it holds: isEncrypted(value) is true exactly when value splits
\* on ':' into three tokens each of which is one or more of the lowercase
\* hex digits 0-9 a-f; every non-empty output of encrypt satisfies it and
\* the empty string does not.
C19_IsEncryptedIffLowerHex ==
    /\ ret.op = "isEncrypted" =>
         (ret.flag <=>
            (/\ Len(split(field)) = 3
             /\ \A i \in 1..3 :
                  /\ split(field)[i] # <<>>
                  /\ Range(split(field)[i]) \subseteq Range(LowerHex)))
    /\ (ret.op = "encrypt" /\ field # <<>>) => isEncrypted(field)
    /\ (ret.op = "isEncrypted" /\ field = <<>>) => ~ret.flag

\* isEncrypted has said yes to an envelope encrypt returned
C19_Witness ==
    /\ ret.op = "isEncrypted"
    /\ IntactAtRest
    /\ field # <<>>
    /\ ret.flag

\* the errors the try block throws for a file that is not an envelope
FormatErrors == {"Content is not encrypted", "Invalid encrypted format"}

\* C20: export decrypt fails in two ways that can be told apart: on input
\* whose literal tokens or token count do not match, with a format error of
\* its own, thrown before any decryption; on a wrong password and on a
\* corrupted payload, with one and the same decryption error.
C20_TwoErrorOutcomes ==
    ret.op \in {"decryptCSV", "decryptJSON"} =>
        /\ (sealed.tampered = "format" \/ sealed.kind = "upload") =>
               (~ret.ok /\ ret.error \in FormatErrors)
        /\ (sealed.kind = "export" /\ sealed.tampered \in {"no", "tag", "ciphertext"}
              /\ ~ret.ok) =>
               ret.error \notin FormatErrors

(***************************************************************************)
(* Properties of the key derivation                                        *)
(***************************************************************************)

\* C23: the at-rest key is derived at most once per process: once a call of
\* encrypt or decrypt has run the key derivation, no later call of encrypt
\* or decrypt in the same process runs it again.
C23_DerivedOncePerProcess ==
    [][ (ret.kdf > 0 /\ ret'.op \in {"encrypt", "decrypt"}) =>
            ret'.kdf = 0 ]_vars

(***************************************************************************)
(* Properties of the SQLiteStore callbacks                                 *)
(***************************************************************************)

\* C28: every SQLiteStore operation invokes its callback exactly once per
\* call, with a result or with an error, and lets no exception out: when the
\* statement throws, when the stored payload is no JSON text, and when the
\* callback itself throws while it is invoked.
C28_CallbackExactlyOnce ==
    cb.op # "none" => (Len(cb.invoked) = 1 /\ ~cb.escaped)

(***************************************************************************)
(* Properties of the loading of server/database.ts                         *)
(***************************************************************************)

\* C24: the only startup condition that ends the process is the failure to
\* open the store file; a failure to create the database directory, whatever
\* its error code, and every other failure of the storage initialisation end
\* in a warning and startup goes on.
C24_OnlyOpenAborts ==
    boot.exit # "none" => boot.failed = "open"

\* C25: no ADD COLUMN step ends initializeDatabase: when the store says the
\* column is there the step is logged as fine, any other error is logged as
\* a warning, and either way the rows the table had keep their values and
\* the next step of initializeDatabase is reached.
C25_AddColumnNeverAborts ==
    [][ boot.pc \in AddColumnPcs =>
          LET st == StepAt(boot.pc)
              old == boot.tables[st.table].row
              new == boot'.tables[st.table].row
          IN  /\ boot'.exit = "none"
              /\ boot'.pc = AfterStep(boot.pc)
              /\ boot'.last = "duplicate" =>
                     /\ [level |-> "log", step |-> boot.pc] \in boot'.log
                     /\ [level |-> "warn", step |-> boot.pc] \notin boot'.log
                     /\ boot'.tables = boot.tables
              /\ boot'.last = "other" =>
                     /\ [level |-> "warn", step |-> boot.pc] \in boot'.log
                     /\ boot'.tables = boot.tables
              /\ \A c \in DOMAIN old : c \in DOMAIN new /\ new[c] = old[c]
              /\ \A t \in MigratedTables \ {st.table} :
                     boot'.tables[t] = boot.tables[t]
      ]_vars

\* the body column was refused for a reason other than its being there, on
\* a reminders table of an earlier version whose row is as it was, and
\* initializeDatabase has gone on to the templates table
C25_Witness ==
    /\ boot.pc = "templates"
    /\ boot.last = "other"
    /\ [level |-> "warn", step |-> "reminders.body"] \in boot.log
    /\ boot.tables.reminders = TableWith({"id"})
    /\ boot.exit = "none"

(***************************************************************************)
(* Properties of the entries routes                                        *)
(***************************************************************************)

ImportRoutes == {"POST /import/csv", "POST /import/json"}

\* the file sent is an export envelope and the password sent is none, or
\* one that does not open it
CannotOpen(route, text, password) ==
    IF route = "POST /import/csv"
    THEN isCSVEncrypted(text) /\ (password = "" \/ ~decryptCSV(text, password).ok)
    ELSE isJSONEncrypted(text) /\ (password = "" \/ ~decryptJSON(text, password).ok)

\* C21: an import, CSV or JSON, of an encrypted file with no password or
\* with a password that does not open it ends in an error response, counts
\* nothing as imported, and leaves diary_entries, tags, entry_tags and
\* templates as they were.
C21_RefusedImportWritesNothing ==
    [][ (resp'.route \in ImportRoutes
         /\ CannotOpen(resp'.route, resp'.text, resp'.password))
        => /\ resp'.status \in {400, 401}
           /\ resp'.count = 0
           /\ entries' = entries
           /\ entryTags' = entryTags
           /\ tags' = tags
           /\ templates' = templates
      ]_vars

\* the user's own encrypted JSON export came back with a password that does
\* not open it, the journal having an entry, and was answered with 401
C21_Witness ==
    /\ resp.route = "POST /import/json"
    /\ resp.status = 401
    /\ isJSONEncrypted(resp.text)
    /\ resp.password = "pw2"
    /\ entries # {}

\* an entry as its owner reads it
Decrypted(e) == [e EXCEPT !.content = safeDecrypt(@).value]

\* C22: when a user's export made with a password is imported again with
\* that password, every exported row is counted as imported, none is
\* skipped, and the user has the entries of before with the field values
\* of before.
C22_ExportImportParity ==
    [][ (/\ file.password # ""
         /\ resp'.route \in ImportRoutes
         /\ resp'.route = (IF file.format = "csv" THEN "POST /import/csv"
                           ELSE "POST /import/json")
         /\ resp'.user = file.owner
         /\ resp'.text = file.text
         /\ resp'.password = file.password)
        => /\ resp'.count = Cardinality(file.rows)
           /\ resp'.skipped = 0
           /\ { Decrypted(e) : e \in { x \in entries' : x.user_id = file.owner } }
                = { Decrypted(e) : e \in { x \in entries : x.user_id = file.owner } }
      ]_vars

\* C26 as stated: every content in diary_entries is an at-rest envelope.
C26_EveryContentIsEnvelope ==
    \A e \in entries : isEncrypted(e.content)

\* C26: every content the handlers stored in diary_entries is either empty,
\* the content written having been empty, or an at-rest envelope that
\* decrypt opens; no other text is stored.
C26_ContentEmptyOrEnvelope ==
    \A e \in entries :
        \/ e.content = <<>>
        \/ isEncrypted(e.content) /\ decrypt(e.content).ok

\* an entry was created and then updated by id, and what is stored for it
\* is an envelope
C26_Witness ==
    /\ resp.route = "PUT /id/:id"
    /\ resp.status = 200
    /\ \E e \in entries : /\ e.id \in resp.ids
                          /\ e.updated_at > e.created_at
                          /\ isEncrypted(e.content)

\* C29: PUT /:date that finds an entry changes that entry only: every
\* other entry, those of the same user and date included, is after the
\* request what it was before.
C29_PutByDateUpdatesOne ==
    [][ (resp'.route = "PUT /:date" /\ resp'.status = 200)
        => \A e \in entries : e.id \notin resp'.ids => e \in entries'
      ]_vars

OthersRows(tbl, u) == { e \in tbl : e.user_id # u }

\* C30: a request in the session of one user returns no entry of another
\* user, in a response or in an exported file, and changes or deletes no
\* entry of another user and no tag link of such an entry.
C30_CrossUserIsolation ==
    [][ LET u == resp'.user
            theirs == EntryIdsOf(OthersRows(entries, u))
        IN  /\ OthersRows(entries', u) = OthersRows(entries, u)
            /\ { x \in entryTags' : x.entry_id \in theirs }
                 = { x \in entryTags : x.entry_id \in theirs }
            /\ resp'.ids \cap theirs = {}
            /\ \A r \in file'.rows : r.line \notin theirs /\ r.id \notin theirs
      ]_vars

\* A, who has no entry, imported a JSON file naming the id of B's entry:
\* the row was skipped and B's entry is there
C30_Witness ==
    /\ resp.route = "POST /import/json"
    /\ resp.user = "A"
    /\ resp.status = 200
    /\ resp.skipped = 1
    /\ resp.count = 0
    /\ entries # {}
    /\ \A e \in entries : e.user_id = "B"

====
